---- MODULE Spec2Model ----
(***************************************************************************)
(* Authentication and authorization core of the library REST API:          *)
(* the Express pipelines of app.js, the refresh-token middleware, the two  *)
(* variants of the role middleware, and the register / login / refresh     *)
(* handlers, over an abstract user table and an abstract clock.            *)
(*                                                                         *)
(* Strings the code inspects character by character (role names) are      *)
(* sequences of Unicode code points.  An Authorization header is a         *)
(* sequence of atoms: a space, a word without spaces, or a signed token.   *)
(* Optional JavaScript values (req.user, a header, a token) are sets with  *)
(* at most one element; the empty set is undefined.  Time is in days.      *)
(***************************************************************************)
EXTENDS Integers, Sequences, FiniteSets, TLC

VARIABLES
    reqs,      \* request slot -> the request object and its pipeline position
    users,     \* rows of the User table
    nextId,    \* next value of the User id sequence
    now,       \* the clock, in days
    ticks,     \* number of clock advances so far
    rolesJs,   \* which variant of middleware/roles.js the deployment loads
    up         \* the Node process is running

vars == <<reqs, users, nextId, now, ticks, rolesJs, up>>

(***************************************************************************)
(* Bounds of the model.                                                    *)
(***************************************************************************)
MaxUsers == 2
MaxTicks == 1

(***************************************************************************)
(* Strings.  String.prototype.toLowerCase is the Unicode default case      *)
(* conversion: the lowercase mapping of each code point, the one code      *)
(* point whose mapping is two code points, and the Final_Sigma rule.  The  *)
(* tables are those of the Unicode 17.0 character database, which the ICU  *)
(* data of a current Node binary follows; the repository pins no runtime.  *)
(***************************************************************************)
\* Lowercase_Mapping of the code points that map to one other code point,
\* as runs <<first, last, step, delta>>: every step-th code point from first
\* to last maps to itself plus delta.
LowerRuns ==
    { <<65, 90, 1, 32>>, <<192, 214, 1, 32>>, <<216, 222, 1, 32>>,
      <<256, 302, 2, 1>>, <<306, 310, 2, 1>>, <<313, 327, 2, 1>>,
      <<330, 374, 2, 1>>, <<376, 376, 1, -121>>, <<377, 381, 2, 1>>,
      <<385, 385, 1, 210>>, <<386, 388, 2, 1>>, <<390, 390, 1, 206>>,
      <<391, 391, 1, 1>>, <<393, 394, 1, 205>>, <<395, 395, 1, 1>>,
      <<398, 398, 1, 79>>, <<399, 399, 1, 202>>, <<400, 400, 1, 203>>,
      <<401, 401, 1, 1>>, <<403, 403, 1, 205>>, <<404, 404, 1, 207>>,
      <<406, 406, 1, 211>>, <<407, 407, 1, 209>>, <<408, 408, 1, 1>>,
      <<412, 412, 1, 211>>, <<413, 413, 1, 213>>, <<415, 415, 1, 214>>,
      <<416, 420, 2, 1>>, <<422, 422, 1, 218>>, <<423, 423, 1, 1>>,
      <<425, 425, 1, 218>>, <<428, 428, 1, 1>>, <<430, 430, 1, 218>>,
      <<431, 431, 1, 1>>, <<433, 434, 1, 217>>, <<435, 437, 2, 1>>,
      <<439, 439, 1, 219>>, <<440, 440, 1, 1>>, <<444, 444, 1, 1>>,
      <<452, 452, 1, 2>>, <<453, 453, 1, 1>>, <<455, 455, 1, 2>>,
      <<456, 456, 1, 1>>, <<458, 458, 1, 2>>, <<459, 475, 2, 1>>,
      <<478, 494, 2, 1>>, <<497, 497, 1, 2>>, <<498, 500, 2, 1>>,
      <<502, 502, 1, -97>>, <<503, 503, 1, -56>>, <<504, 542, 2, 1>>,
      <<544, 544, 1, -130>>, <<546, 562, 2, 1>>, <<570, 570, 1, 10795>>,
      <<571, 571, 1, 1>>, <<573, 573, 1, -163>>, <<574, 574, 1, 10792>>,
      <<577, 577, 1, 1>>, <<579, 579, 1, -195>>, <<580, 580, 1, 69>>,
      <<581, 581, 1, 71>>, <<582, 590, 2, 1>>, <<880, 882, 2, 1>>,
      <<886, 886, 1, 1>>, <<895, 895, 1, 116>>, <<902, 902, 1, 38>>,
      <<904, 906, 1, 37>>, <<908, 908, 1, 64>>, <<910, 911, 1, 63>>,
      <<913, 929, 1, 32>>, <<931, 939, 1, 32>>, <<975, 975, 1, 8>>,
      <<984, 1006, 2, 1>>, <<1012, 1012, 1, -60>>, <<1015, 1015, 1, 1>>,
      <<1017, 1017, 1, -7>>, <<1018, 1018, 1, 1>>, <<1021, 1023, 1, -130>>,
      <<1024, 1039, 1, 80>>, <<1040, 1071, 1, 32>>, <<1120, 1152, 2, 1>>,
      <<1162, 1214, 2, 1>>, <<1216, 1216, 1, 15>>, <<1217, 1229, 2, 1>>,
      <<1232, 1326, 2, 1>>, <<1329, 1366, 1, 48>>, <<4256, 4293, 1, 7264>>,
      <<4295, 4295, 1, 7264>>, <<4301, 4301, 1, 7264>>,
      <<5024, 5103, 1, 38864>>, <<5104, 5109, 1, 8>>, <<7305, 7305, 1, 1>>,
      <<7312, 7354, 1, -3008>>, <<7357, 7359, 1, -3008>>, <<7680, 7828, 2, 1>>,
      <<7838, 7838, 1, -7615>>, <<7840, 7934, 2, 1>>, <<7944, 7951, 1, -8>>,
      <<7960, 7965, 1, -8>>, <<7976, 7983, 1, -8>>, <<7992, 7999, 1, -8>>,
      <<8008, 8013, 1, -8>>, <<8025, 8031, 2, -8>>, <<8040, 8047, 1, -8>>,
      <<8072, 8079, 1, -8>>, <<8088, 8095, 1, -8>>, <<8104, 8111, 1, -8>>,
      <<8120, 8121, 1, -8>>, <<8122, 8123, 1, -74>>, <<8124, 8124, 1, -9>>,
      <<8136, 8139, 1, -86>>, <<8140, 8140, 1, -9>>, <<8152, 8153, 1, -8>>,
      <<8154, 8155, 1, -100>>, <<8168, 8169, 1, -8>>, <<8170, 8171, 1, -112>>,
      <<8172, 8172, 1, -7>>, <<8184, 8185, 1, -128>>, <<8186, 8187, 1, -126>>,
      <<8188, 8188, 1, -9>>, <<8486, 8486, 1, -7517>>,
      <<8490, 8490, 1, -8383>>, <<8491, 8491, 1, -8262>>,
      <<8498, 8498, 1, 28>>, <<8544, 8559, 1, 16>>, <<8579, 8579, 1, 1>>,
      <<9398, 9423, 1, 26>>, <<11264, 11311, 1, 48>>, <<11360, 11360, 1, 1>>,
      <<11362, 11362, 1, -10743>>, <<11363, 11363, 1, -3814>>,
      <<11364, 11364, 1, -10727>>, <<11367, 11371, 2, 1>>,
      <<11373, 11373, 1, -10780>>, <<11374, 11374, 1, -10749>>,
      <<11375, 11375, 1, -10783>>, <<11376, 11376, 1, -10782>>,
      <<11378, 11378, 1, 1>>, <<11381, 11381, 1, 1>>,
      <<11390, 11391, 1, -10815>>, <<11392, 11490, 2, 1>>,
      <<11499, 11501, 2, 1>>, <<11506, 11506, 1, 1>>, <<42560, 42604, 2, 1>>,
      <<42624, 42650, 2, 1>>, <<42786, 42798, 2, 1>>, <<42802, 42862, 2, 1>>,
      <<42873, 42875, 2, 1>>, <<42877, 42877, 1, -35332>>,
      <<42878, 42886, 2, 1>>, <<42891, 42891, 1, 1>>,
      <<42893, 42893, 1, -42280>>, <<42896, 42898, 2, 1>>,
      <<42902, 42920, 2, 1>>, <<42922, 42922, 1, -42308>>,
      <<42923, 42923, 1, -42319>>, <<42924, 42924, 1, -42315>>,
      <<42925, 42925, 1, -42305>>, <<42926, 42926, 1, -42308>>,
      <<42928, 42928, 1, -42258>>, <<42929, 42929, 1, -42282>>,
      <<42930, 42930, 1, -42261>>, <<42931, 42931, 1, 928>>,
      <<42932, 42946, 2, 1>>, <<42948, 42948, 1, -48>>,
      <<42949, 42949, 1, -42307>>, <<42950, 42950, 1, -35384>>,
      <<42951, 42953, 2, 1>>, <<42955, 42955, 1, -42343>>,
      <<42956, 42970, 2, 1>>, <<42972, 42972, 1, -42561>>,
      <<42997, 42997, 1, 1>>, <<65313, 65338, 1, 32>>, <<66560, 66599, 1, 40>>,
      <<66736, 66771, 1, 40>>, <<66928, 66938, 1, 39>>,
      <<66940, 66954, 1, 39>>, <<66956, 66962, 1, 39>>,
      <<66964, 66965, 1, 39>>, <<68736, 68786, 1, 64>>,
      <<68944, 68965, 1, 32>>, <<71840, 71871, 1, 32>>,
      <<93760, 93791, 1, 32>>, <<93856, 93880, 1, 27>>,
      <<125184, 125217, 1, 34>> }

\* Code points with the property Cased that are not Case_Ignorable, as
\* ranges <<first, last>>.
CasedRanges ==
    { <<65, 90>>, <<97, 122>>, <<170, 170>>, <<181, 181>>, <<186, 186>>,
      <<192, 214>>, <<216, 246>>, <<248, 442>>, <<444, 447>>, <<452, 659>>,
      <<662, 687>>, <<880, 883>>, <<886, 887>>, <<891, 893>>, <<895, 895>>,
      <<902, 902>>, <<904, 906>>, <<908, 908>>, <<910, 929>>, <<931, 1013>>,
      <<1015, 1153>>, <<1162, 1327>>, <<1329, 1366>>, <<1376, 1416>>,
      <<4256, 4293>>, <<4295, 4295>>, <<4301, 4301>>, <<4304, 4346>>,
      <<4349, 4351>>, <<5024, 5109>>, <<5112, 5117>>, <<7296, 7306>>,
      <<7312, 7354>>, <<7357, 7359>>, <<7424, 7467>>, <<7531, 7543>>,
      <<7545, 7578>>, <<7680, 7957>>, <<7960, 7965>>, <<7968, 8005>>,
      <<8008, 8013>>, <<8016, 8023>>, <<8025, 8025>>, <<8027, 8027>>,
      <<8029, 8029>>, <<8031, 8061>>, <<8064, 8116>>, <<8118, 8124>>,
      <<8126, 8126>>, <<8130, 8132>>, <<8134, 8140>>, <<8144, 8147>>,
      <<8150, 8155>>, <<8160, 8172>>, <<8178, 8180>>, <<8182, 8188>>,
      <<8450, 8450>>, <<8455, 8455>>, <<8458, 8467>>, <<8469, 8469>>,
      <<8473, 8477>>, <<8484, 8484>>, <<8486, 8486>>, <<8488, 8488>>,
      <<8490, 8493>>, <<8495, 8500>>, <<8505, 8505>>, <<8508, 8511>>,
      <<8517, 8521>>, <<8526, 8526>>, <<8544, 8575>>, <<8579, 8580>>,
      <<9398, 9449>>, <<11264, 11387>>, <<11390, 11492>>, <<11499, 11502>>,
      <<11506, 11507>>, <<11520, 11557>>, <<11559, 11559>>, <<11565, 11565>>,
      <<42560, 42605>>, <<42624, 42651>>, <<42786, 42863>>, <<42865, 42887>>,
      <<42891, 42894>>, <<42896, 42972>>, <<42997, 42998>>, <<43002, 43002>>,
      <<43824, 43866>>, <<43872, 43880>>, <<43888, 43967>>, <<64256, 64262>>,
      <<64275, 64279>>, <<65313, 65338>>, <<65345, 65370>>, <<66560, 66639>>,
      <<66736, 66771>>, <<66776, 66811>>, <<66928, 66938>>, <<66940, 66954>>,
      <<66956, 66962>>, <<66964, 66965>>, <<66967, 66977>>, <<66979, 66993>>,
      <<66995, 67001>>, <<67003, 67004>>, <<68736, 68786>>, <<68800, 68850>>,
      <<68944, 68965>>, <<68976, 68997>>, <<71840, 71903>>, <<93760, 93823>>,
      <<93856, 93880>>, <<93883, 93907>>, <<119808, 119892>>,
      <<119894, 119964>>, <<119966, 119967>>, <<119970, 119970>>,
      <<119973, 119974>>, <<119977, 119980>>, <<119982, 119993>>,
      <<119995, 119995>>, <<119997, 120003>>, <<120005, 120069>>,
      <<120071, 120074>>, <<120077, 120084>>, <<120086, 120092>>,
      <<120094, 120121>>, <<120123, 120126>>, <<120128, 120132>>,
      <<120134, 120134>>, <<120138, 120144>>, <<120146, 120485>>,
      <<120488, 120512>>, <<120514, 120538>>, <<120540, 120570>>,
      <<120572, 120596>>, <<120598, 120628>>, <<120630, 120654>>,
      <<120656, 120686>>, <<120688, 120712>>, <<120714, 120744>>,
      <<120746, 120770>>, <<120772, 120779>>, <<122624, 122633>>,
      <<122635, 122654>>, <<122661, 122666>>, <<125184, 125251>>,
      <<127280, 127305>>, <<127312, 127337>>, <<127344, 127369>> }

\* Code points with the property Case_Ignorable, as ranges <<first, last>>.
CaseIgnorableRanges ==
    { <<39, 39>>, <<46, 46>>, <<58, 58>>, <<94, 94>>, <<96, 96>>, <<168, 168>>,
      <<173, 173>>, <<175, 175>>, <<180, 180>>, <<183, 184>>, <<688, 879>>,
      <<884, 885>>, <<890, 890>>, <<900, 901>>, <<903, 903>>, <<1155, 1161>>,
      <<1369, 1369>>, <<1375, 1375>>, <<1425, 1469>>, <<1471, 1471>>,
      <<1473, 1474>>, <<1476, 1477>>, <<1479, 1479>>, <<1524, 1524>>,
      <<1536, 1541>>, <<1552, 1562>>, <<1564, 1564>>, <<1600, 1600>>,
      <<1611, 1631>>, <<1648, 1648>>, <<1750, 1757>>, <<1759, 1768>>,
      <<1770, 1773>>, <<1807, 1807>>, <<1809, 1809>>, <<1840, 1866>>,
      <<1958, 1968>>, <<2027, 2037>>, <<2042, 2042>>, <<2045, 2045>>,
      <<2070, 2093>>, <<2137, 2139>>, <<2184, 2184>>, <<2192, 2193>>,
      <<2199, 2207>>, <<2249, 2306>>, <<2362, 2362>>, <<2364, 2364>>,
      <<2369, 2376>>, <<2381, 2381>>, <<2385, 2391>>, <<2402, 2403>>,
      <<2417, 2417>>, <<2433, 2433>>, <<2492, 2492>>, <<2497, 2500>>,
      <<2509, 2509>>, <<2530, 2531>>, <<2558, 2558>>, <<2561, 2562>>,
      <<2620, 2620>>, <<2625, 2626>>, <<2631, 2632>>, <<2635, 2637>>,
      <<2641, 2641>>, <<2672, 2673>>, <<2677, 2677>>, <<2689, 2690>>,
      <<2748, 2748>>, <<2753, 2757>>, <<2759, 2760>>, <<2765, 2765>>,
      <<2786, 2787>>, <<2810, 2815>>, <<2817, 2817>>, <<2876, 2876>>,
      <<2879, 2879>>, <<2881, 2884>>, <<2893, 2893>>, <<2901, 2902>>,
      <<2914, 2915>>, <<2946, 2946>>, <<3008, 3008>>, <<3021, 3021>>,
      <<3072, 3072>>, <<3076, 3076>>, <<3132, 3132>>, <<3134, 3136>>,
      <<3142, 3144>>, <<3146, 3149>>, <<3157, 3158>>, <<3170, 3171>>,
      <<3201, 3201>>, <<3260, 3260>>, <<3263, 3263>>, <<3270, 3270>>,
      <<3276, 3277>>, <<3298, 3299>>, <<3328, 3329>>, <<3387, 3388>>,
      <<3393, 3396>>, <<3405, 3405>>, <<3426, 3427>>, <<3457, 3457>>,
      <<3530, 3530>>, <<3538, 3540>>, <<3542, 3542>>, <<3633, 3633>>,
      <<3636, 3642>>, <<3654, 3662>>, <<3761, 3761>>, <<3764, 3772>>,
      <<3782, 3782>>, <<3784, 3790>>, <<3864, 3865>>, <<3893, 3893>>,
      <<3895, 3895>>, <<3897, 3897>>, <<3953, 3966>>, <<3968, 3972>>,
      <<3974, 3975>>, <<3981, 3991>>, <<3993, 4028>>, <<4038, 4038>>,
      <<4141, 4144>>, <<4146, 4151>>, <<4153, 4154>>, <<4157, 4158>>,
      <<4184, 4185>>, <<4190, 4192>>, <<4209, 4212>>, <<4226, 4226>>,
      <<4229, 4230>>, <<4237, 4237>>, <<4253, 4253>>, <<4348, 4348>>,
      <<4957, 4959>>, <<5906, 5908>>, <<5938, 5939>>, <<5970, 5971>>,
      <<6002, 6003>>, <<6068, 6069>>, <<6071, 6077>>, <<6086, 6086>>,
      <<6089, 6099>>, <<6103, 6103>>, <<6109, 6109>>, <<6155, 6159>>,
      <<6211, 6211>>, <<6277, 6278>>, <<6313, 6313>>, <<6432, 6434>>,
      <<6439, 6440>>, <<6450, 6450>>, <<6457, 6459>>, <<6679, 6680>>,
      <<6683, 6683>>, <<6742, 6742>>, <<6744, 6750>>, <<6752, 6752>>,
      <<6754, 6754>>, <<6757, 6764>>, <<6771, 6780>>, <<6783, 6783>>,
      <<6823, 6823>>, <<6832, 6877>>, <<6880, 6891>>, <<6912, 6915>>,
      <<6964, 6964>>, <<6966, 6970>>, <<6972, 6972>>, <<6978, 6978>>,
      <<7019, 7027>>, <<7040, 7041>>, <<7074, 7077>>, <<7080, 7081>>,
      <<7083, 7085>>, <<7142, 7142>>, <<7144, 7145>>, <<7149, 7149>>,
      <<7151, 7153>>, <<7212, 7219>>, <<7222, 7223>>, <<7288, 7293>>,
      <<7376, 7378>>, <<7380, 7392>>, <<7394, 7400>>, <<7405, 7405>>,
      <<7412, 7412>>, <<7416, 7417>>, <<7468, 7530>>, <<7544, 7544>>,
      <<7579, 7679>>, <<8125, 8125>>, <<8127, 8129>>, <<8141, 8143>>,
      <<8157, 8159>>, <<8173, 8175>>, <<8189, 8190>>, <<8203, 8207>>,
      <<8216, 8217>>, <<8228, 8228>>, <<8231, 8231>>, <<8234, 8238>>,
      <<8288, 8292>>, <<8294, 8303>>, <<8305, 8305>>, <<8319, 8319>>,
      <<8336, 8348>>, <<8400, 8432>>, <<11388, 11389>>, <<11503, 11505>>,
      <<11631, 11631>>, <<11647, 11647>>, <<11744, 11775>>, <<11823, 11823>>,
      <<12293, 12293>>, <<12330, 12333>>, <<12337, 12341>>, <<12347, 12347>>,
      <<12441, 12446>>, <<12540, 12542>>, <<40981, 40981>>, <<42232, 42237>>,
      <<42508, 42508>>, <<42607, 42610>>, <<42612, 42621>>, <<42623, 42623>>,
      <<42652, 42655>>, <<42736, 42737>>, <<42752, 42785>>, <<42864, 42864>>,
      <<42888, 42890>>, <<42993, 42996>>, <<43000, 43001>>, <<43010, 43010>>,
      <<43014, 43014>>, <<43019, 43019>>, <<43045, 43046>>, <<43052, 43052>>,
      <<43204, 43205>>, <<43232, 43249>>, <<43263, 43263>>, <<43302, 43309>>,
      <<43335, 43345>>, <<43392, 43394>>, <<43443, 43443>>, <<43446, 43449>>,
      <<43452, 43453>>, <<43471, 43471>>, <<43493, 43494>>, <<43561, 43566>>,
      <<43569, 43570>>, <<43573, 43574>>, <<43587, 43587>>, <<43596, 43596>>,
      <<43632, 43632>>, <<43644, 43644>>, <<43696, 43696>>, <<43698, 43700>>,
      <<43703, 43704>>, <<43710, 43711>>, <<43713, 43713>>, <<43741, 43741>>,
      <<43756, 43757>>, <<43763, 43764>>, <<43766, 43766>>, <<43867, 43871>>,
      <<43881, 43883>>, <<44005, 44005>>, <<44008, 44008>>, <<44013, 44013>>,
      <<64286, 64286>>, <<64434, 64450>>, <<65024, 65039>>, <<65043, 65043>>,
      <<65056, 65071>>, <<65106, 65106>>, <<65109, 65109>>, <<65279, 65279>>,
      <<65287, 65287>>, <<65294, 65294>>, <<65306, 65306>>, <<65342, 65342>>,
      <<65344, 65344>>, <<65392, 65392>>, <<65438, 65439>>, <<65507, 65507>>,
      <<65529, 65531>>, <<66045, 66045>>, <<66272, 66272>>, <<66422, 66426>>,
      <<67456, 67461>>, <<67463, 67504>>, <<67506, 67514>>, <<68097, 68099>>,
      <<68101, 68102>>, <<68108, 68111>>, <<68152, 68154>>, <<68159, 68159>>,
      <<68325, 68326>>, <<68900, 68903>>, <<68942, 68942>>, <<68969, 68973>>,
      <<68975, 68975>>, <<69291, 69292>>, <<69317, 69317>>, <<69370, 69375>>,
      <<69446, 69456>>, <<69506, 69509>>, <<69633, 69633>>, <<69688, 69702>>,
      <<69744, 69744>>, <<69747, 69748>>, <<69759, 69761>>, <<69811, 69814>>,
      <<69817, 69818>>, <<69821, 69821>>, <<69826, 69826>>, <<69837, 69837>>,
      <<69888, 69890>>, <<69927, 69931>>, <<69933, 69940>>, <<70003, 70003>>,
      <<70016, 70017>>, <<70070, 70078>>, <<70089, 70092>>, <<70095, 70095>>,
      <<70191, 70193>>, <<70196, 70196>>, <<70198, 70199>>, <<70206, 70206>>,
      <<70209, 70209>>, <<70367, 70367>>, <<70371, 70378>>, <<70400, 70401>>,
      <<70459, 70460>>, <<70464, 70464>>, <<70502, 70508>>, <<70512, 70516>>,
      <<70587, 70592>>, <<70606, 70606>>, <<70608, 70608>>, <<70610, 70610>>,
      <<70625, 70626>>, <<70712, 70719>>, <<70722, 70724>>, <<70726, 70726>>,
      <<70750, 70750>>, <<70835, 70840>>, <<70842, 70842>>, <<70847, 70848>>,
      <<70850, 70851>>, <<71090, 71093>>, <<71100, 71101>>, <<71103, 71104>>,
      <<71132, 71133>>, <<71219, 71226>>, <<71229, 71229>>, <<71231, 71232>>,
      <<71339, 71339>>, <<71341, 71341>>, <<71344, 71349>>, <<71351, 71351>>,
      <<71453, 71453>>, <<71455, 71455>>, <<71458, 71461>>, <<71463, 71467>>,
      <<71727, 71735>>, <<71737, 71738>>, <<71995, 71996>>, <<71998, 71998>>,
      <<72003, 72003>>, <<72148, 72151>>, <<72154, 72155>>, <<72160, 72160>>,
      <<72193, 72202>>, <<72243, 72248>>, <<72251, 72254>>, <<72263, 72263>>,
      <<72273, 72278>>, <<72281, 72283>>, <<72330, 72342>>, <<72344, 72345>>,
      <<72544, 72544>>, <<72546, 72548>>, <<72550, 72550>>, <<72752, 72758>>,
      <<72760, 72765>>, <<72767, 72767>>, <<72850, 72871>>, <<72874, 72880>>,
      <<72882, 72883>>, <<72885, 72886>>, <<73009, 73014>>, <<73018, 73018>>,
      <<73020, 73021>>, <<73023, 73029>>, <<73031, 73031>>, <<73104, 73105>>,
      <<73109, 73109>>, <<73111, 73111>>, <<73177, 73177>>, <<73459, 73460>>,
      <<73472, 73473>>, <<73526, 73530>>, <<73536, 73536>>, <<73538, 73538>>,
      <<73562, 73562>>, <<78896, 78912>>, <<78919, 78933>>, <<90398, 90409>>,
      <<90413, 90415>>, <<92912, 92916>>, <<92976, 92982>>, <<92992, 92995>>,
      <<93504, 93506>>, <<93547, 93548>>, <<94031, 94031>>, <<94095, 94111>>,
      <<94176, 94177>>, <<94179, 94180>>, <<94194, 94195>>, <<110576, 110579>>,
      <<110581, 110587>>, <<110589, 110590>>, <<113821, 113822>>,
      <<113824, 113827>>, <<118528, 118573>>, <<118576, 118598>>,
      <<119143, 119145>>, <<119155, 119170>>, <<119173, 119179>>,
      <<119210, 119213>>, <<119362, 119364>>, <<121344, 121398>>,
      <<121403, 121452>>, <<121461, 121461>>, <<121476, 121476>>,
      <<121499, 121503>>, <<121505, 121519>>, <<122880, 122886>>,
      <<122888, 122904>>, <<122907, 122913>>, <<122915, 122916>>,
      <<122918, 122922>>, <<122928, 122989>>, <<123023, 123023>>,
      <<123184, 123197>>, <<123566, 123566>>, <<123628, 123631>>,
      <<124139, 124143>>, <<124398, 124399>>, <<124643, 124643>>,
      <<124646, 124646>>, <<124654, 124655>>, <<124661, 124661>>,
      <<124671, 124671>>, <<125136, 125142>>, <<125252, 125259>>,
      <<127995, 127999>>, <<917505, 917505>>, <<917536, 917631>>,
      <<917760, 917999>> }

InRanges(c, ranges) == \E t \in ranges : c \in t[1]..t[2]

InRun(c, t) == c \in t[1]..t[2] /\ (c - t[1]) % t[3] = 0

\* Lowercase mapping of one code point that maps to one code point.
LowercaseMapping(c) ==
    IF \E t \in LowerRuns : InRun(c, t)
    THEN c + (CHOOSE t \in LowerRuns : InRun(c, t))[4]
    ELSE c

\* Final_Sigma, as ICU evaluates it: going away from position i, the first
\* code point that is not Case_Ignorable exists and is Cased.
RECURSIVE CasedLetterFrom(_, _, _)
CasedLetterFrom(s, i, dir) ==
    IF i \notin DOMAIN s THEN FALSE
    ELSE IF InRanges(s[i], CaseIgnorableRanges) THEN CasedLetterFrom(s, i + dir, dir)
    ELSE InRanges(s[i], CasedRanges)

FinalSigma(s, i) == CasedLetterFrom(s, i - 1, -1) /\ ~CasedLetterFrom(s, i + 1, 1)

\* The code points that position i of s becomes: U+03A3 becomes U+03C2 where
\* it is final and U+03C3 elsewhere, U+0130 becomes U+0069 U+0307.
LowerAt(s, i) ==
    IF s[i] = 931
    THEN IF FinalSigma(s, i) THEN <<962>> ELSE <<963>>
    ELSE IF s[i] = 304 THEN <<105, 775>>
    ELSE <<LowercaseMapping(s[i])>>

RECURSIVE LowerFrom(_, _)
LowerFrom(s, i) == IF i > Len(s) THEN <<>> ELSE LowerAt(s, i) \o LowerFrom(s, i + 1)

\* String.prototype.toLowerCase
toLowerCase(s) == LowerFrom(s, 1)

\* The code points String.prototype.trim removes: ECMAScript WhiteSpace (tab,
\* vertical tab, form feed, zero width no-break space and the category Zs)
\* and LineTerminator.
WhiteSpace ==
    {9, 11, 12, 65279, 32, 160, 5760} \cup (8192..8202) \cup {8239, 8287, 12288}
        \cup {10, 13, 8232, 8233}

\* String.prototype.trim: whitespace removed from both ends
RECURSIVE trim(_)
trim(s) ==
    IF s = <<>> THEN s
    ELSE IF Head(s) \in WhiteSpace THEN trim(Tail(s))
    ELSE IF s[Len(s)] \in WhiteSpace THEN trim(SubSeq(s, 1, Len(s) - 1))
    ELSE s

\* Array.prototype.includes
includes(arr, x) == \E i \in DOMAIN arr : arr[i] = x

\* Array.prototype.map(r => r.toLowerCase())
mapToLowerCase(arr) == [i \in DOMAIN arr |-> toLowerCase(arr[i])]

\* 'admin' and 'user'
ADMIN == <<97, 100, 109, 105, 110>>
USER == <<117, 115, 101, 114>>

(***************************************************************************)
(* Header atoms and String.prototype.split(' ').                           *)
(***************************************************************************)
SP == [k |-> "sp"]
Word(w) == [k |-> "word", w |-> w]

RECURSIVE split(_)
split(s) ==
    IF \A i \in DOMAIN s : s[i] # SP THEN <<s>>
    ELSE LET i == CHOOSE i \in DOMAIN s :
                      s[i] = SP /\ \A j \in 1..(i - 1) : s[j] # SP
         IN  <<SubSeq(s, 1, i - 1)>> \o split(SubSeq(s, i + 1, Len(s)))

\* bearerToken reading the first part of the header instead of the second
bearerTokenFirstPart(headers) ==
    IF headers = {} THEN {}
    ELSE LET authHeader == CHOOSE h \in headers : TRUE
         IN  IF authHeader = <<>> THEN {<<>>} ELSE {split(authHeader)[1]}

\* const token = authHeader && authHeader.split(' ')[1]
\* {} is undefined; {<<>>} is the empty string
bearerToken(headers) ==
    IF headers = {} THEN {}
    ELSE LET authHeader == CHOOSE h \in headers : TRUE
             parts == split(authHeader)
         IN  IF authHeader = <<>> THEN {<<>>}
             ELSE IF Len(parts) >= 2 THEN {parts[2]}
             ELSE {}

\* !token
falsy(token) == token = {} \/ token = {<<>>}

(***************************************************************************)
(* jsonwebtoken: HS256 signing and verification.  The MAC of a payload     *)
(* under a key is the pair of both: equal MACs mean equal key and payload. *)
(***************************************************************************)
ACCESS_TOKEN_SECRET == "access-secret"
REFRESH_TOKEN_SECRET == "refresh-secret"
OTHER_SECRET == "other-secret"

AccessTTL == 1
RefreshTTL == 30

hmac(key, msg) == [key |-> key, msg |-> msg]

Jwt(payload, key) == [k |-> "jwt", payload |-> payload, sig |-> hmac(key, payload)]

\* jwt.sign(claims, secret, { expiresIn }): iat and exp are added to the claims
jwtSign(claims, secret, expiresIn, clock) ==
    Jwt(claims @@ [iat |-> clock, exp |-> clock + expiresIn], secret)

NoError == "none"

\* jwt.verify with ignoreExpiration: the exp claim is not looked at
jwtVerifyIgnoresExpiry(token, secret, clock) ==
    IF Len(token) # 1 \/ token[1].k # "jwt"
    THEN [err |-> "jwt malformed", decoded |-> {}]
    ELSE IF token[1].sig # hmac(secret, token[1].payload)
    THEN [err |-> "invalid signature", decoded |-> {}]
    ELSE [err |-> NoError, decoded |-> {token[1].payload}]

\* jwt.verify(token, secret, callback): the (err, decoded) handed to the callback
jwtVerify(token, secret, clock) ==
    IF Len(token) # 1 \/ token[1].k # "jwt"
    THEN [err |-> "jwt malformed", decoded |-> {}]
    ELSE IF token[1].sig # hmac(secret, token[1].payload)
    THEN [err |-> "invalid signature", decoded |-> {}]
    ELSE IF "exp" \in DOMAIN token[1].payload /\ clock >= token[1].payload.exp
    THEN [err |-> "jwt expired", decoded |-> {}]
    ELSE [err |-> NoError, decoded |-> {token[1].payload}]

(***************************************************************************)
(* bcryptjs: a hash is the salt and the digest of salt and plaintext.      *)
(***************************************************************************)
Salts == {"salt1", "salt2"}

bcryptHash(plaintext, salt) == [salt |-> salt, digest |-> <<salt, plaintext>>]

bcryptCompare(plaintext, hashed) == hashed.digest = <<hashed.salt, plaintext>>

(***************************************************************************)
(* What one stage of a pipeline does to its request: the responses it      *)
(* sends, whether it calls next(), the req.user it leaves, the error it     *)
(* throws synchronously, and whether its promise rejects.                  *)
(***************************************************************************)
Response(status, body) == [status |-> status, body |-> body]

Responds(req, status, body) ==
    [sent |-> <<Response(status, body)>>, next |-> FALSE, user |-> req.user,
     thrown |-> NoError, rejected |-> NoError]

CallsNext(req, user) ==
    [sent |-> <<>>, next |-> TRUE, user |-> user,
     thrown |-> NoError, rejected |-> NoError]

Throws(req, error) ==
    [sent |-> <<>>, next |-> FALSE, user |-> req.user,
     thrown |-> error, rejected |-> NoError]

Rejects(req, error) ==
    [sent |-> <<>>, next |-> FALSE, user |-> req.user,
     thrown |-> NoError, rejected |-> error]

(***************************************************************************)
(* Faulty versions of authenticateRefreshToken: one that answers 401 to an *)
(* expired token, one that forgets to set req.user, one that verifies      *)
(* against the access secret.                                              *)
(***************************************************************************)
authenticateRefreshTokenTellsExpiry(req, clock) ==
    LET token == bearerToken(req.headers)
    IN  IF falsy(token)
        THEN Responds(req, 401, [error |-> "Token manquant"])
        ELSE LET v == jwtVerify(CHOOSE t \in token : TRUE, REFRESH_TOKEN_SECRET, clock)
             IN  IF v.err = "jwt expired"
                 THEN Responds(req, 401, [error |-> "Token expire"])
                 ELSE IF v.err # NoError
                 THEN Responds(req, 403, [error |-> "Token invalide"])
                 ELSE CallsNext(req, v.decoded)

authenticateRefreshTokenNoAttach(req, clock) ==
    LET token == bearerToken(req.headers)
    IN  IF falsy(token)
        THEN Responds(req, 401, [error |-> "Token manquant"])
        ELSE LET v == jwtVerify(CHOOSE t \in token : TRUE, REFRESH_TOKEN_SECRET, clock)
             IN  IF v.err # NoError
                 THEN Responds(req, 403, [error |-> "Token invalide"])
                 ELSE CallsNext(req, req.user)

authenticateRefreshTokenAccessSecret(req, clock) ==
    LET token == bearerToken(req.headers)
    IN  IF falsy(token)
        THEN Responds(req, 401, [error |-> "Token manquant"])
        ELSE LET v == jwtVerify(CHOOSE t \in token : TRUE, ACCESS_TOKEN_SECRET, clock)
             IN  IF v.err # NoError
                 THEN Responds(req, 403, [error |-> "Token invalide"])
                 ELSE CallsNext(req, v.decoded)

(***************************************************************************)
(* middleware/authrefresh.js                                               *)
(***************************************************************************)
authenticateRefreshToken(req, clock) ==
    LET token == bearerToken(req.headers)
    IN  IF falsy(token)
        THEN Responds(req, 401, [error |-> "Token manquant"])
        ELSE LET v == jwtVerify(CHOOSE t \in token : TRUE, REFRESH_TOKEN_SECRET, clock)
             IN  IF v.err # NoError
                 THEN Responds(req, 403, [error |-> "Token invalide"])
                 ELSE CallsNext(req, v.decoded)

(***************************************************************************)
(* middleware/auth.js is not among the sources: the access-token           *)
(* middleware follows its contract, the refresh middleware's with the      *)
(* access secret.                                                          *)
(***************************************************************************)
authenticateToken(req, clock) ==
    LET token == bearerToken(req.headers)
    IN  IF falsy(token)
        THEN Responds(req, 401, [error |-> "Token manquant"])
        ELSE LET v == jwtVerify(CHOOSE t \in token : TRUE, ACCESS_TOKEN_SECRET, clock)
             IN  IF v.err # NoError
                 THEN Responds(req, 403, [error |-> "Token invalide"])
                 ELSE CallsNext(req, v.decoded)

(***************************************************************************)
(* middleware/roles.js, in its two variants.                               *)
(***************************************************************************)
\* const role = req.user.role.trim(), then the comparison with allowedRoles
roleCheck(allowedRoles, req, message) ==
    LET user == CHOOSE u \in req.user : TRUE
    IN  IF "role" \notin DOMAIN user
        THEN Throws(req, "TypeError: Cannot read properties of undefined (reading 'trim')")
        ELSE LET role == trim(user.role)
             IN  IF ~includes(mapToLowerCase(allowedRoles), toLowerCase(role))
                 THEN Responds(req, 403, [error |-> message])
                 ELSE CallsNext(req, req.user)

\* The identifiers the module of the first variant binds: it imports nothing.
rolesWithPrismaImports == {}

\* the variant that builds a PrismaClient on every call
authorizeRolesWithPrisma(allowedRoles, req) ==
    IF "PrismaClient" \notin rolesWithPrismaImports
    THEN Throws(req, "ReferenceError: PrismaClient is not defined")
    ELSE IF req.user = {}
    THEN Responds(req, 401, [error |-> "Non authentifie"])
    ELSE roleCheck(allowedRoles, req, "Acces interdit pour ce role : role allowed : allowedRoles")

\* authorizeRolesPlain with the return of its 403 branch lost: it answers and goes on
authorizeRolesPlainNoReturn(allowedRoles, req) ==
    IF req.user = {}
    THEN Responds(req, 401, [error |-> "Non authentifie"])
    ELSE LET o == roleCheck(allowedRoles, req, "Acces interdit pour ce role")
         IN  IF o.sent # <<>> THEN [o EXCEPT !.next = TRUE] ELSE o

\* the variant without a persistence handle
authorizeRolesPlain(allowedRoles, req) ==
    IF req.user = {}
    THEN Responds(req, 401, [error |-> "Non authentifie"])
    ELSE roleCheck(allowedRoles, req, "Acces interdit pour ce role")

RolesVariants == {"withPrisma", "plain"}

authorizeRoles(variant, allowedRoles, req) ==
    IF variant = "withPrisma"
    THEN authorizeRolesWithPrisma(allowedRoles, req)
    ELSE authorizeRolesPlain(allowedRoles, req)

(***************************************************************************)
(* The User table behind prisma.user.  id is a SERIAL column, email is the  *)
(* unique key login looks users up by.                                     *)
(***************************************************************************)
\* prisma.user.findUnique({ where: { email } }): the set holding the row, or {}
findUniqueByEmail(table, email) == {u \in table : u.email = email}

\* The unique key on User.email, which findUnique({ where: { email } }) relies
\* on: an INSERT of a stored email fails.  The Prisma schema is not among the
\* sources.
uniqueEmailViolated(table, email) == \E u \in table : u.email = email

NoBody == [f \in {} |-> ""]

(***************************************************************************)
(* app.js: the auth handlers.                                              *)
(***************************************************************************)
\* register taking the role from the request body when there is one
registerTrustsBodyRole(req, table, id, salt) ==
    LET body == req.body
        role == IF "role" \in DOMAIN body THEN body.role ELSE USER
    IN  IF "password" \notin DOMAIN body
        THEN [out |-> Rejects(req, "Illegal arguments: undefined, number"),
              users |-> table, nextId |-> id]
        ELSE LET password == bcryptHash(body.password, salt)
             IN  IF "email" \notin DOMAIN body
                 THEN [out |-> Responds(req, 500, [error |-> "Argument email is missing"]),
                       users |-> table, nextId |-> id]
                 ELSE IF uniqueEmailViolated(table, body.email)
                 THEN [out |-> Responds(req, 500,
                                  [error |-> "Unique constraint failed on the fields: (email)"]),
                       users |-> table, nextId |-> id + 1]
                 ELSE LET newUser == [id |-> id, email |-> body.email,
                                      password |-> password, role |-> role]
                      IN  [out |-> Responds(req, 201, newUser),
                           users |-> table \cup {newUser}, nextId |-> id + 1]

\* POST /api/v1/auth/register: the outcome, the table and the id sequence after it
register(req, table, id, salt) ==
    LET body == req.body
        role == USER
    IN  IF "password" \notin DOMAIN body
        THEN \* bcrypt.hash(undefined, 10) rejects, outside the try block
             [out |-> Rejects(req, "Illegal arguments: undefined, number"),
              users |-> table, nextId |-> id]
        ELSE LET password == bcryptHash(body.password, salt)
             IN  IF "email" \notin DOMAIN body
                 THEN [out |-> Responds(req, 500, [error |-> "Argument email is missing"]),
                       users |-> table, nextId |-> id]
                 ELSE IF uniqueEmailViolated(table, body.email)
                 THEN [out |-> Responds(req, 500,
                                  [error |-> "Unique constraint failed on the fields: (email)"]),
                       users |-> table, nextId |-> id + 1]
                 ELSE LET newUser == [id |-> id, email |-> body.email,
                                      password |-> password, role |-> role]
                      IN  [out |-> Responds(req, 201, newUser),
                           users |-> table \cup {newUser}, nextId |-> id + 1]

\* the refresh token login computes and leaves in a local constant
loginRefreshToken(user, clock) ==
    jwtSign([userId |-> user.id, role |-> user.role], REFRESH_TOKEN_SECRET, RefreshTTL, clock)

\* POST /api/v1/auth/login
login(req, table, clock) ==
    LET body == req.body
    IN  IF "email" \notin DOMAIN body
        THEN Responds(req, 500, [error |-> "Argument where needs at least one argument"])
        ELSE LET found == findUniqueByEmail(table, body.email)
             IN  IF found = {}
                 THEN Responds(req, 400, [message |-> "Utilisateur introuvable"])
                 ELSE LET user == CHOOSE u \in found : TRUE
                      IN  IF "password" \notin DOMAIN body
                          THEN Responds(req, 500,
                                   [error |-> "Illegal arguments: undefined, string"])
                          ELSE IF ~bcryptCompare(body.password, user.password)
                          THEN Responds(req, 400, [message |-> "Mot de passe incorrect"])
                          ELSE LET accessToken ==
                                       jwtSign([userId |-> user.id, role |-> user.role],
                                               ACCESS_TOKEN_SECRET, AccessTTL, clock)
                                   refreshToken == loginRefreshToken(user, clock)
                               IN  Responds(req, 200, [message |-> "Connexion reussie",
                                                      accessToken |-> accessToken])

\* The identifiers in scope in the refresh handler: its parameters and the
\* module's top-level bindings.  The handler reads user.id and user.role.
refreshScope == {"req", "res", "app", "port", "prisma", "bcrypt", "jwt",
                 "authenticateToken", "authenticateRefreshToken", "authorizeRoles"}

\* a refresh that rotates: it answers with a new access token and a new
\* refresh token for the identity the middleware attached
refreshRotates(req, clock) ==
    LET user == CHOOSE u \in req.user : TRUE
        claims == [userId |-> user.userId, role |-> user.role]
    IN  Responds(req, 200,
            [accessToken |-> jwtSign(claims, ACCESS_TOKEN_SECRET, AccessTTL, clock),
             refreshToken |-> jwtSign(claims, REFRESH_TOKEN_SECRET, RefreshTTL, clock)])

\* POST /api/v1/auth/refresh
refresh(req, clock) ==
    IF "user" \notin refreshScope
    THEN \* ReferenceError inside the try block: console.error(err), then 500
         Responds(req, 500, [error |-> "Erreur serveur"])
    ELSE LET user == CHOOSE u \in req.user : TRUE
         IN  Responds(req, 200,
                 [accessToken |-> jwtSign([userId |-> user.id, role |-> user.role],
                                          ACCESS_TOKEN_SECRET, AccessTTL, clock)])

(***************************************************************************)
(* app.js: the routes, each with its stack of middleware and its handler.  *)
(* A books / authors / categories handler is persistence glue: of it the   *)
(* model keeps the statuses it can answer with.                            *)
(***************************************************************************)
MwAuthenticateToken == [fn |-> "authenticateToken"]
MwAuthenticateRefreshToken == [fn |-> "authenticateRefreshToken"]
MwAuthorizeRoles(allowedRoles) == [fn |-> "authorizeRoles", allowedRoles |-> allowedRoles]
Handler(statuses) == [fn |-> "handler", statuses |-> statuses]

Route(method, path, stack) == [method |-> method, path |-> path, stack |-> stack]

\* ReadRoute without its access-token middleware
ReadRouteUngated(method, path, statuses) == Route(method, path, <<Handler(statuses)>>)

ReadRoute(method, path, statuses) ==
    Route(method, path, <<MwAuthenticateToken, Handler(statuses)>>)

AdminRoute(method, path, statuses) ==
    Route(method, path, <<MwAuthenticateToken, MwAuthorizeRoles(<<ADMIN>>), Handler(statuses)>>)

CatalogRoutes ==
    { ReadRoute("GET", "/api/v1/books/:id", {200, 404, 500}),
      ReadRoute("GET", "/api/v1/books", {200, 500}),
      AdminRoute("POST", "/api/v1/books", {201, 500}),
      AdminRoute("PUT", "/api/v1/books/:id", {200, 500}),
      AdminRoute("DELETE", "/api/v1/books/:id", {200, 500}),
      ReadRoute("GET", "/api/v1/authors/:id", {200, 404, 500}),
      ReadRoute("GET", "/api/v1/authors", {200, 500}),
      AdminRoute("POST", "/api/v1/authors", {201, 500}),
      AdminRoute("PUT", "/api/v1/authors/:id", {200, 500}),
      AdminRoute("DELETE", "/api/v1/authors/:id", {200, 500}),
      ReadRoute("GET", "/api/v1/categories", {200, 500}),
      ReadRoute("GET", "/api/v1/categories/:id", {200, 404, 500}),
      AdminRoute("POST", "/api/v1/categories", {201, 500}),
      AdminRoute("PUT", "/api/v1/categories/:id", {200, 500}),
      AdminRoute("DELETE", "/api/v1/categories/:id", {200, 500}) }

RegisterRoute == Route("POST", "/api/v1/auth/register", <<[fn |-> "register"]>>)
LoginRoute == Route("POST", "/api/v1/auth/login", <<[fn |-> "login"]>>)
RefreshRoute ==
    Route("POST", "/api/v1/auth/refresh", <<MwAuthenticateRefreshToken, [fn |-> "refresh"]>>)

Routes == CatalogRoutes \cup {RegisterRoute, LoginRoute, RefreshRoute}

(***************************************************************************)
(* Express: a request object, and the router's handling of what a stage    *)
(* did.  A synchronous throw goes to the default error handler, which      *)
(* answers 500 unless a response was sent.  A rejected promise of an async *)
(* handler is dropped by Express 4 and handled like a throw by Express 5;  *)
(* on a dropped rejection Node goes on or, by default since Node 15, exits.*)
(* trace lists the stages that started and when, nexts those that called   *)
(* next(), responses the responses sent and by whom.  An async handler     *)
(* returns to the event loop at each await: awaits is the number of the    *)
(* await it is suspended at, held what the awaited call brings back.       *)
(***************************************************************************)
IdleReq ==
    [pc |-> "idle", method |-> "", path |-> "", stack |-> <<>>, idx |-> 0,
     headers |-> {}, body |-> NoBody, user |-> {},
     responses |-> <<>>, trace |-> <<>>, nexts |-> <<>>, awaits |-> 0, held |-> {}]

NewReq(route, headers, body) ==
    [pc |-> "pending", method |-> route.method, path |-> route.path,
     stack |-> route.stack, idx |-> 1,
     headers |-> headers, body |-> body, user |-> {},
     responses |-> <<>>, trace |-> <<>>, nexts |-> <<>>, awaits |-> 0, held |-> {}]

\* the stage at hand, already in the trace, ends with outcome o
Settle(req, o, catchesRejections) ==
    LET fn == req.stack[req.idx].fn
        failed == o.thrown # NoError \/ (o.rejected # NoError /\ catchesRejections)
        error == IF o.thrown # NoError THEN o.thrown ELSE o.rejected
        passes == o.next /\ ~failed
        offEnd == passes /\ req.idx = Len(req.stack)
        answered == req.responses \o [i \in DOMAIN o.sent |-> o.sent[i] @@ [by |-> fn]]
        responses ==
            IF failed /\ answered = <<>>
            THEN <<Response(500, [error |-> error]) @@ [by |-> "errorHandler"]>>
            ELSE IF offEnd /\ answered = <<>>
            THEN <<Response(404, [error |-> "Cannot " \o req.method]) @@ [by |-> "finalhandler"]>>
            ELSE answered
    IN  [req EXCEPT
            !.awaits = 0,
            !.held = {},
            !.nexts = IF o.next THEN Append(@, fn) ELSE @,
            !.user = o.user,
            !.responses = responses,
            !.idx = IF passes /\ ~offEnd THEN @ + 1 ELSE @,
            !.pc = IF passes /\ ~offEnd THEN "pending"
                   ELSE IF responses # <<>> THEN "done"
                   ELSE "hung"]

\* the stage at hand starts
Started(req, clock) == [req EXCEPT !.trace = Append(@, [fn |-> req.stack[req.idx].fn, at |-> clock])]

\* a stage that runs to its end in the callback it started in
Dispatch(req, o, clock, catchesRejections) == Settle(Started(req, clock), o, catchesRejections)

\* the stage is suspended at its await number n, the awaited call bringing back held
Suspend(req, n, held) == [req EXCEPT !.pc = "awaiting", !.awaits = n, !.held = held]

Stage(r) == reqs[r].stack[reqs[r].idx]

AtStage(r, fn) == up /\ reqs[r].pc = "pending" /\ Stage(r).fn = fn

Awaiting(r, fn, n) ==
    up /\ reqs[r].pc = "awaiting" /\ Stage(r).fn = fn /\ reqs[r].awaits = n

(***************************************************************************)
(* The requests clients send.                                              *)
(***************************************************************************)
\* '\f Admin\t\u00A0'
PaddedAdmin == <<12, 32, 65, 100, 109, 105, 110, 9, 160>>

InputRoles == {ADMIN, PaddedAdmin, USER, <<>>}

Payload(role, ttl) == [userId |-> 1, role |-> role, iat |-> 0, exp |-> ttl]

PayloadNoRole(ttl) == [userId |-> 1, iat |-> 0, exp |-> ttl]

AccessTokens ==
    {Jwt(Payload(role, AccessTTL), ACCESS_TOKEN_SECRET) : role \in InputRoles}
        \cup {Jwt(PayloadNoRole(AccessTTL), ACCESS_TOKEN_SECRET)}

RefreshTokens ==
    {Jwt(Payload(role, RefreshTTL), REFRESH_TOKEN_SECRET) : role \in {ADMIN, USER}}

\* signed by a stranger, or altered after signing
ForgedTokens ==
    { Jwt(Payload(ADMIN, RefreshTTL), OTHER_SECRET),
      [Jwt(Payload(USER, AccessTTL), ACCESS_TOKEN_SECRET) EXCEPT !.payload.role = ADMIN],
      [Jwt(Payload(USER, RefreshTTL), REFRESH_TOKEN_SECRET) EXCEPT !.payload.role = ADMIN] }

InputTokens == AccessTokens \cup RefreshTokens \cup ForgedTokens \cup {Word("garbage")}

Bearer(token) == <<Word("Bearer"), SP, token>>

\* headers whose shape is unusual, around one token of each purpose
OddHeaders ==
    { <<>>, <<Word("Bearer")>>, <<Word("Bearer"), SP>> }
        \cup UNION { { <<t>>, <<Word("Bearer"), SP, SP, t>>, <<Word("Basic"), SP, t>>,
                       <<Word("Bearer"), SP, t, SP, Word("x")>> } :
                     t \in { Jwt(Payload(ADMIN, AccessTTL), ACCESS_TOKEN_SECRET),
                             Jwt(Payload(USER, RefreshTTL), REFRESH_TOKEN_SECRET) } }

\* the access tokens the responses of a slot's last request carry
ResponseTokens(req) ==
    { req.responses[i].body.accessToken :
        i \in { j \in DOMAIN req.responses : "accessToken" \in DOMAIN req.responses[j].body } }

InputHeaders == { {} } \cup { {h} : h \in OddHeaders } \cup { {Bearer(t)} : t \in InputTokens }

Emails == {"a@x.com", ""}
Passwords == {"pw1", ""}

Field(name, values) == {NoBody} \cup { name :> v : v \in values }

LoginBodies == { e @@ p : e \in Field("email", Emails), p \in Field("password", Passwords) }

\* a body of register may also name a role
RegisterBodies ==
    LoginBodies \cup { b @@ ("role" :> ADMIN) :
                         b \in { c \in LoginBodies : DOMAIN c = {"email", "password"} } }

TokenRoutes == CatalogRoutes \cup {RefreshRoute}

\* the routes that are sent every header: one of each pipeline
ProbedRoutes ==
    { ReadRoute("GET", "/api/v1/books/:id", {200, 404, 500}),
      AdminRoute("POST", "/api/v1/books", {201, 500}),
      RefreshRoute }

\* the headers every route is sent: none, some without a token, and a valid
\* access token of each role
PlainHeaders ==
    { {} } \cup { {h} : h \in {<<>>, <<Word("Bearer")>>, <<Word("Bearer"), SP>>} }
          \cup { {Bearer(Jwt(Payload(role, AccessTTL), ACCESS_TOKEN_SECRET))} :
                   role \in {ADMIN, USER} }

\* what a client sends out of the blue
Arrivals ==
    { <<route, h, NoBody>> : route \in ProbedRoutes, h \in InputHeaders }
        \cup { <<route, h, NoBody>> : route \in TokenRoutes \ ProbedRoutes, h \in PlainHeaders }
        \cup { <<RegisterRoute, {}, b>> : b \in RegisterBodies }
        \cup { <<LoginRoute, {}, b>> : b \in LoginBodies }

\* what a client sends with the token it was just given
FollowUps(req) ==
    { <<route, {Bearer(t)}, NoBody>> : route \in ProbedRoutes, t \in ResponseTokens(req) }

(***************************************************************************)
(* Actions.                                                                *)
(***************************************************************************)
Init ==
    /\ reqs = [r \in {1} |-> IdleReq]
    /\ users = {}
    /\ nextId = 1
    /\ now = 0
    /\ ticks = 0
    /\ rolesJs \in RolesVariants
    /\ up = TRUE

\* a client sends a request
Arrive(r) ==
    /\ up
    /\ reqs[r].pc = "idle"
    /\ \E a \in Arrivals :
           /\ a[1] = RegisterRoute => nextId <= MaxUsers
           /\ reqs' = [reqs EXCEPT ![r] = NewReq(a[1], a[2], a[3])]
    /\ UNCHANGED <<users, nextId, now, ticks, rolesJs, up>>

\* the client that was answered sends its next request, with the token it received
FollowUp(r) ==
    /\ up
    /\ reqs[r].pc = "done"
    /\ \E a \in FollowUps(reqs[r]) :
           reqs' = [reqs EXCEPT ![r] = NewReq(a[1], a[2], a[3])]
    /\ UNCHANGED <<users, nextId, now, ticks, rolesJs, up>>

\* the request is over (answered, abandoned by its client, or cut by the exit
\* of the process): its object is dropped
Release(r) ==
    /\ reqs[r].pc \in {"done", "hung"} \/ (~up /\ reqs[r].pc # "idle")
    /\ reqs' = [reqs EXCEPT ![r] = IdleReq]
    /\ UNCHANGED <<users, nextId, now, ticks, rolesJs, up>>

RunAuthenticateToken(r) ==
    /\ AtStage(r, "authenticateToken")
    /\ reqs' = [reqs EXCEPT ![r] = Dispatch(@, authenticateToken(@, now), now, FALSE)]
    /\ UNCHANGED <<users, nextId, now, ticks, rolesJs, up>>

RunAuthenticateRefreshToken(r) ==
    /\ AtStage(r, "authenticateRefreshToken")
    /\ reqs' = [reqs EXCEPT ![r] = Dispatch(@, authenticateRefreshToken(@, now), now, FALSE)]
    /\ UNCHANGED <<users, nextId, now, ticks, rolesJs, up>>

RunAuthorizeRoles(r) ==
    /\ AtStage(r, "authorizeRoles")
    /\ reqs' = [reqs EXCEPT ![r] =
                   Dispatch(@, authorizeRoles(rolesJs, Stage(r).allowedRoles, @), now, FALSE)]
    /\ UNCHANGED <<users, nextId, now, ticks, rolesJs, up>>

\* a books / authors / categories handler starts: it calls prisma and awaits
RunHandler(r) ==
    /\ AtStage(r, "handler")
    /\ reqs' = [reqs EXCEPT ![r] = Suspend(Started(@, now), 1, {})]
    /\ UNCHANGED <<users, nextId, now, ticks, rolesJs, up>>

\* the prisma call of the handler is back: it answers with one of its statuses
ResumeHandler(r) ==
    /\ Awaiting(r, "handler", 1)
    /\ \E status \in Stage(r).statuses :
           reqs' = [reqs EXCEPT ![r] =
                       Settle(@, Responds(@, status, [handler |-> reqs[r].path]), FALSE)]
    /\ UNCHANGED <<users, nextId, now, ticks, rolesJs, up>>

\* What becomes of the rejected promise of an async handler: Express 5 hands
\* it to the error handler; Express 4 drops it, and Node then either goes on
\* (the request is never answered) or exits on the unhandled rejection.
RejectionFates == {"errorHandler", "dropped", "exit"}

\* register starts: it calls bcrypt.hash and awaits
RunRegister(r) ==
    /\ AtStage(r, "register")
    /\ reqs' = [reqs EXCEPT ![r] = Suspend(Started(@, now), 1, {})]
    /\ UNCHANGED <<users, nextId, now, ticks, rolesJs, up>>

\* bcrypt.hash is back.  Rejected, it ends the handler outside its try; else
\* the handler calls prisma.user.create, the INSERT runs, and it awaits
ResumeRegisterHashed(r) ==
    /\ Awaiting(r, "register", 1)
    /\ \E salt \in Salts :
           LET done == register(reqs[r], users, nextId, salt)
           IN  IF done.out.rejected # NoError
               THEN \E fate \in RejectionFates :
                        /\ reqs' = [reqs EXCEPT ![r] = Settle(@, done.out, fate = "errorHandler")]
                        /\ up' = (fate # "exit")
                        /\ UNCHANGED <<users, nextId>>
               ELSE /\ reqs' = [reqs EXCEPT ![r] = Suspend(@, 2, {done.out})]
                    /\ users' = done.users
                    /\ nextId' = done.nextId
                    /\ UNCHANGED up
    /\ UNCHANGED <<now, ticks, rolesJs>>

\* prisma.user.create is back: register answers 201 or, from its catch, 500
ResumeRegisterCreated(r) ==
    /\ Awaiting(r, "register", 2)
    /\ reqs' = [reqs EXCEPT ![r] = Settle(@, CHOOSE o \in reqs[r].held : TRUE, FALSE)]
    /\ UNCHANGED <<users, nextId, now, ticks, rolesJs, up>>

\* the rows prisma.user.findUnique({ where: { email } }) of login selects
loginSelect(req, table) ==
    IF "email" \in DOMAIN req.body THEN findUniqueByEmail(table, req.body.email) ELSE {}

\* login starts: it calls prisma.user.findUnique, the SELECT runs, and it awaits
RunLogin(r) ==
    /\ AtStage(r, "login")
    /\ reqs' = [reqs EXCEPT ![r] = Suspend(Started(@, now), 1, loginSelect(@, users))]
    /\ UNCHANGED <<users, nextId, now, ticks, rolesJs, up>>

\* findUnique is back: without a user login answers, else it calls
\* bcrypt.compare and awaits
ResumeLoginFound(r) ==
    /\ Awaiting(r, "login", 1)
    /\ reqs' = [reqs EXCEPT ![r] =
                   IF reqs[r].held # {}
                   THEN Suspend(@, 2, reqs[r].held)
                   ELSE Settle(@, login(@, reqs[r].held, now), FALSE)]
    /\ UNCHANGED <<users, nextId, now, ticks, rolesJs, up>>

\* bcrypt.compare is back: login answers, signing the tokens now if it matched
ResumeLoginCompared(r) ==
    /\ Awaiting(r, "login", 2)
    /\ reqs' = [reqs EXCEPT ![r] = Settle(@, login(@, reqs[r].held, now), FALSE)]
    /\ UNCHANGED <<users, nextId, now, ticks, rolesJs, up>>

RunRefresh(r) ==
    /\ AtStage(r, "refresh")
    /\ reqs' = [reqs EXCEPT ![r] = Dispatch(@, refresh(@, now), now, FALSE)]
    /\ UNCHANGED <<users, nextId, now, ticks, rolesJs, up>>

TickSteps == {1, 31}

\* Time passes while the process waits: between requests and during an await.
\* The stages between which the code does not return to the event loop (the
\* middleware, the start of a handler) run back to back.
Tick ==
    /\ ticks < MaxTicks
    /\ \A r \in DOMAIN reqs : up => reqs[r].pc # "pending"
    /\ \E d \in TickSteps : now' = now + d
    /\ ticks' = ticks + 1
    /\ UNCHANGED <<reqs, users, nextId, rolesJs, up>>

Next ==
    \/ \E r \in DOMAIN reqs : Arrive(r)
    \/ \E r \in DOMAIN reqs : FollowUp(r)
    \/ \E r \in DOMAIN reqs : Release(r)
    \/ \E r \in DOMAIN reqs : RunAuthenticateToken(r)
    \/ \E r \in DOMAIN reqs : RunAuthenticateRefreshToken(r)
    \/ \E r \in DOMAIN reqs : RunAuthorizeRoles(r)
    \/ \E r \in DOMAIN reqs : RunHandler(r)
    \/ \E r \in DOMAIN reqs : ResumeHandler(r)
    \/ \E r \in DOMAIN reqs : RunRegister(r)
    \/ \E r \in DOMAIN reqs : ResumeRegisterHashed(r)
    \/ \E r \in DOMAIN reqs : ResumeRegisterCreated(r)
    \/ \E r \in DOMAIN reqs : RunLogin(r)
    \/ \E r \in DOMAIN reqs : ResumeLoginFound(r)
    \/ \E r \in DOMAIN reqs : ResumeLoginCompared(r)
    \/ \E r \in DOMAIN reqs : RunRefresh(r)
    \/ Tick

Spec == Init /\ [][Next]_vars

(***************************************************************************)
(* src/unnamed/part_000: a second application file.  It creates its own    *)
(* express() and listens on its own, mounts the books / authors /          *)
(* categories handlers without any middleware, has no refresh route, and   *)
(* its register reads the field passwords of the body.  Its login is the   *)
(* login of app.js without the refresh token that one computes and drops.  *)
(* Which of the two files a deployment starts is not in the repository;    *)
(* SpecPart000 is the behaviour of this one.                               *)
(***************************************************************************)
\* POST /api/v1/auth/register of part_000
registerPart000(req, table, id, salt) ==
    LET body == req.body
        role == USER
    IN  IF "passwords" \notin DOMAIN body
        THEN \* bcrypt.hash(undefined, 10) rejects, outside the try block
             [out |-> Rejects(req, "Illegal arguments: undefined, number"),
              users |-> table, nextId |-> id]
        ELSE LET password == bcryptHash(body.passwords, salt)
             IN  IF "email" \notin DOMAIN body
                 THEN [out |-> Responds(req, 500, [error |-> "Argument email is missing"]),
                       users |-> table, nextId |-> id]
                 ELSE IF uniqueEmailViolated(table, body.email)
                 THEN [out |-> Responds(req, 500,
                                  [error |-> "Unique constraint failed on the fields: (email)"]),
                       users |-> table, nextId |-> id + 1]
                 ELSE LET newUser == [id |-> id, email |-> body.email,
                                      password |-> password, role |-> role]
                      IN  [out |-> Responds(req, 201, newUser),
                           users |-> table \cup {newUser}, nextId |-> id + 1]

\* The second app.get('/api/v1/authors') of part_000 is never reached: the
\* first one answers every GET of that path.
Part000CatalogRoutes ==
    { Route("GET", "/api/v1/books/:id", <<Handler({200, 404, 500})>>),
      Route("GET", "/api/v1/books", <<Handler({200, 500})>>),
      Route("POST", "/api/v1/books", <<Handler({201, 500})>>),
      Route("PUT", "/api/v1/books/:id", <<Handler({200, 500})>>),
      Route("DELETE", "/api/v1/books/:id", <<Handler({200, 500})>>),
      Route("GET", "/api/v1/authors", <<Handler({200, 500})>>),
      Route("GET", "/api/v1/authors/:id", <<Handler({200, 404, 500})>>),
      Route("PUT", "/api/v1/authors/:id", <<Handler({200, 500})>>),
      Route("DELETE", "/api/v1/authors/:id", <<Handler({200, 500})>>),
      Route("GET", "/api/v1/categories", <<Handler({200, 500})>>),
      Route("GET", "/api/v1/categories/:id", <<Handler({200, 404, 500})>>),
      Route("PUT", "/api/v1/categories/:id", <<Handler({200, 500})>>),
      Route("DELETE", "/api/v1/categories/:id", <<Handler({200, 500})>>) }

Part000RegisterRoute == Route("POST", "/api/v1/auth/register", <<[fn |-> "registerPart000"]>>)

Part000Routes == Part000CatalogRoutes \cup {Part000RegisterRoute, LoginRoute}

\* bodies of register with the field the handler reads, and with the field
\* the register of app.js reads
Part000RegisterBodies ==
    { e @@ p : e \in Field("email", Emails),
               p \in Field("passwords", Passwords) \cup Field("password", {"pw1"}) }

Part000Arrivals ==
    { <<route, h, NoBody>> :
        route \in Part000CatalogRoutes,
        h \in { {}, {Bearer(Jwt(Payload(USER, AccessTTL), ACCESS_TOKEN_SECRET))} } }
        \cup { <<Part000RegisterRoute, {}, b>> : b \in Part000RegisterBodies }
        \cup { <<LoginRoute, {}, b>> : b \in LoginBodies }

ArrivePart000(r) ==
    /\ up
    /\ reqs[r].pc = "idle"
    /\ \E a \in Part000Arrivals :
           /\ a[1] = Part000RegisterRoute => nextId <= MaxUsers
           /\ reqs' = [reqs EXCEPT ![r] = NewReq(a[1], a[2], a[3])]
    /\ UNCHANGED <<users, nextId, now, ticks, rolesJs, up>>

\* register of part_000 starts: it calls bcrypt.hash and awaits
RunRegisterPart000(r) ==
    /\ AtStage(r, "registerPart000")
    /\ reqs' = [reqs EXCEPT ![r] = Suspend(Started(@, now), 1, {})]
    /\ UNCHANGED <<users, nextId, now, ticks, rolesJs, up>>

\* bcrypt.hash is back.  Rejected, it ends the handler outside its try; else
\* the handler calls prisma.user.create, the INSERT runs, and it awaits
ResumeRegisterPart000Hashed(r) ==
    /\ Awaiting(r, "registerPart000", 1)
    /\ \E salt \in Salts :
           LET done == registerPart000(reqs[r], users, nextId, salt)
           IN  IF done.out.rejected # NoError
               THEN \E fate \in RejectionFates :
                        /\ reqs' = [reqs EXCEPT ![r] = Settle(@, done.out, fate = "errorHandler")]
                        /\ up' = (fate # "exit")
                        /\ UNCHANGED <<users, nextId>>
               ELSE /\ reqs' = [reqs EXCEPT ![r] = Suspend(@, 2, {done.out})]
                    /\ users' = done.users
                    /\ nextId' = done.nextId
                    /\ UNCHANGED up
    /\ UNCHANGED <<now, ticks, rolesJs>>

\* prisma.user.create is back: register answers 201 or, from its catch, 500
ResumeRegisterPart000Created(r) ==
    /\ Awaiting(r, "registerPart000", 2)
    /\ reqs' = [reqs EXCEPT ![r] = Settle(@, CHOOSE o \in reqs[r].held : TRUE, FALSE)]
    /\ UNCHANGED <<users, nextId, now, ticks, rolesJs, up>>

NextPart000 ==
    \/ \E r \in DOMAIN reqs : ArrivePart000(r)
    \/ \E r \in DOMAIN reqs : Release(r)
    \/ \E r \in DOMAIN reqs : RunHandler(r)
    \/ \E r \in DOMAIN reqs : ResumeHandler(r)
    \/ \E r \in DOMAIN reqs : RunRegisterPart000(r)
    \/ \E r \in DOMAIN reqs : ResumeRegisterPart000Hashed(r)
    \/ \E r \in DOMAIN reqs : ResumeRegisterPart000Created(r)
    \/ \E r \in DOMAIN reqs : RunLogin(r)
    \/ \E r \in DOMAIN reqs : ResumeLoginFound(r)
    \/ \E r \in DOMAIN reqs : ResumeLoginCompared(r)
    \/ Tick

SpecPart000 == Init /\ [][NextPart000]_vars

(***************************************************************************)
(* The middleware on their own: each is applied to a request object that   *)
(* a caller built, with any header, any identity context and any set of    *)
(* allowed roles, and followed by a handler.                               *)
(***************************************************************************)
\* '\u212A' (Kelvin sign), '\u00E9', '\u03A3\u03A3' and '\u0130'
CasedRoles == {<<8490>>, <<233>>, <<931, 931>>, <<304>>}

IdentityInputs ==
    { {} } \cup { {Payload(role, AccessTTL)} : role \in InputRoles \cup CasedRoles }
           \cup { {PayloadNoRole(AccessTTL)} }

\* ['admin'], ['user'], ['Admin', 'user'], ['k', '\u00C9', '\u03C3\u03C2'], []
AllowedRolesInputs ==
    { <<ADMIN>>, <<USER>>, <<<<65, 100, 109, 105, 110>>, USER>>,
      <<<<107>>, <<201>>, <<963, 962>>>>, <<>> }

MwReq(mw, headers, user) ==
    [NewReq(Route("USE", "/", <<mw, Handler({200})>>), headers, NoBody) EXCEPT !.user = user]

InitMw ==
    /\ reqs \in [{1} ->
           { MwReq(mw, h, {}) :
               mw \in {MwAuthenticateToken, MwAuthenticateRefreshToken}, h \in InputHeaders }
           \cup
           { MwReq(MwAuthorizeRoles(allowed), {}, user) :
               allowed \in AllowedRolesInputs, user \in IdentityInputs }]
    /\ users = {}
    /\ nextId = 1
    /\ now = 0
    /\ ticks = 0
    /\ rolesJs \in RolesVariants
    /\ up = TRUE

NextMw ==
    \/ \E r \in DOMAIN reqs : RunAuthenticateToken(r)
    \/ \E r \in DOMAIN reqs : RunAuthenticateRefreshToken(r)
    \/ \E r \in DOMAIN reqs : RunAuthorizeRoles(r)
    \/ \E r \in DOMAIN reqs : RunHandler(r)
    \/ \E r \in DOMAIN reqs : ResumeHandler(r)
    \/ Tick

SpecMw == InitMw /\ [][NextMw]_vars

(***************************************************************************)
(* Two requests in flight at once.  Node runs one callback at a time, so   *)
(* a step is one stage of one request, and the stages of the two requests  *)
(* interleave in any order.  The clients send the same few requests, so    *)
(* that the same token is presented twice.                                 *)
(***************************************************************************)
ConcAccess(role) == {Bearer(Jwt(Payload(role, AccessTTL), ACCESS_TOKEN_SECRET))}

ConcRefresh(role) == {Bearer(Jwt(Payload(role, RefreshTTL), REFRESH_TOKEN_SECRET))}

ConcBody == ("email" :> "a@x.com") @@ ("password" :> "pw1")

ConcArrivals ==
    { <<ReadRoute("GET", "/api/v1/books", {200, 500}), ConcAccess(USER), NoBody>>,
      <<AdminRoute("POST", "/api/v1/books", {201, 500}), ConcAccess(USER), NoBody>>,
      <<AdminRoute("POST", "/api/v1/books", {201, 500}), ConcAccess(ADMIN), NoBody>>,
      <<RefreshRoute, ConcRefresh(USER), NoBody>>,
      <<RefreshRoute, ConcRefresh(ADMIN), NoBody>>,
      <<RefreshRoute, {}, NoBody>>,
      <<RegisterRoute, {}, ConcBody>>,
      <<RegisterRoute, {}, "email" :> "a@x.com">>,
      <<LoginRoute, {}, ConcBody>> }

InitConc ==
    /\ reqs = [r \in {1, 2} |-> IdleReq]
    /\ users = {}
    /\ nextId = 1
    /\ now = 0
    /\ ticks = 0
    /\ rolesJs \in RolesVariants
    /\ up = TRUE

ArriveConc(r) ==
    /\ up
    /\ reqs[r].pc = "idle"
    /\ \E a \in ConcArrivals :
           /\ a[1] = RegisterRoute => nextId <= MaxUsers
           /\ reqs' = [reqs EXCEPT ![r] = NewReq(a[1], a[2], a[3])]
    /\ UNCHANGED <<users, nextId, now, ticks, rolesJs, up>>

NextConc ==
    \/ \E r \in DOMAIN reqs : ArriveConc(r)
    \/ \E r \in DOMAIN reqs : Release(r)
    \/ \E r \in DOMAIN reqs : RunAuthenticateToken(r)
    \/ \E r \in DOMAIN reqs : RunAuthenticateRefreshToken(r)
    \/ \E r \in DOMAIN reqs : RunAuthorizeRoles(r)
    \/ \E r \in DOMAIN reqs : RunHandler(r)
    \/ \E r \in DOMAIN reqs : ResumeHandler(r)
    \/ \E r \in DOMAIN reqs : RunRegister(r)
    \/ \E r \in DOMAIN reqs : ResumeRegisterHashed(r)
    \/ \E r \in DOMAIN reqs : ResumeRegisterCreated(r)
    \/ \E r \in DOMAIN reqs : RunLogin(r)
    \/ \E r \in DOMAIN reqs : ResumeLoginFound(r)
    \/ \E r \in DOMAIN reqs : ResumeLoginCompared(r)
    \/ \E r \in DOMAIN reqs : RunRefresh(r)
    \/ Tick

SpecConc == InitConc /\ [][NextConc]_vars

(***************************************************************************)
(* Vocabulary of the properties.                                           *)
(***************************************************************************)
Fns(seq) == [i \in DOMAIN seq |-> seq[i].fn]

Ran(q, fn) == \E i \in DOMAIN q.trace : q.trace[i].fn = fn

\* the time at which stage fn of q ran
RanAt(q, fn) == q.trace[CHOOSE i \in DOMAIN q.trace : q.trace[i].fn = fn].at

\* how many times stage fn of q called next()
NextCalls(q, fn) == Cardinality({i \in DOMAIN q.nexts : q.nexts[i] = fn})

AnsweredBy(q, fn) == {q.responses[i] : i \in {j \in DOMAIN q.responses : q.responses[j].by = fn}}

OnRoute(q, routes) == \E route \in routes : q.method = route.method /\ q.path = route.path

\* the Authorization header is absent, or nothing but a space-free first part
\* is followed by a single space and a non-space
NoBearerToken(headers) ==
    \A h \in headers :
        ~\E i \in DOMAIN h : /\ h[i] = SP
                             /\ \A j \in 1..(i - 1) : h[j] # SP
                             /\ i < Len(h)
                             /\ h[i + 1] # SP

\* the run of non-space atoms after the first space of the header
RECURSIVE UpToSpace(_)
UpToSpace(s) == IF s = <<>> \/ Head(s) = SP THEN <<>> ELSE <<Head(s)>> \o UpToSpace(Tail(s))

RECURSIVE AfterFirstSpace(_)
AfterFirstSpace(s) ==
    IF s = <<>> THEN <<>> ELSE IF Head(s) = SP THEN Tail(s) ELSE AfterFirstSpace(Tail(s))

Presented(q) == UpToSpace(AfterFirstSpace(CHOOSE h \in q.headers : TRUE))

\* the presented token was signed with secret over its present payload
SignedWith(q, secret) ==
    /\ ~NoBearerToken(q.headers)
    /\ Len(Presented(q)) = 1
    /\ Presented(q)[1].k = "jwt"
    /\ Presented(q)[1] = Jwt(Presented(q)[1].payload, secret)

\* the presented token was signed with secret and had not expired at time t
ValidAt(q, secret, t) == SignedWith(q, secret) /\ t < Presented(q)[1].payload.exp

InvalidToken == Response(403, [error |-> "Token invalide"])

AdminStack == <<"authenticateToken", "authorizeRoles", "handler">>

OnAdminPipeline(q) == Fns(q.stack) = AdminStack /\ q.stack[2].allowedRoles = <<ADMIN>>

Failed(q) == \E i \in DOMAIN q.responses : q.responses[i].status >= 400

(***************************************************************************)
(* C1: on a route composed as authenticateToken, authorizeRoles('admin'),  *)
(* handler, the stages run in that order, a stage runs only after every    *)
(* earlier stage called next(), and once an error response exists the      *)
(* stage that ended the request did not call next() and nothing ran after. *)
(***************************************************************************)
C1_StagesInOrderShortCircuit ==
    \A r \in DOMAIN reqs :
        LET q == reqs[r]
        IN  OnAdminPipeline(q) =>
                /\ Len(q.trace) <= Len(AdminStack)
                /\ Fns(q.trace) = SubSeq(AdminStack, 1, Len(q.trace))
                /\ Len(q.nexts) <= Len(q.trace)
                /\ q.nexts = SubSeq(AdminStack, 1, Len(q.nexts))
                /\ Len(q.trace) <= Len(q.nexts) + 1
                /\ Ran(q, "handler") => q.nexts = <<"authenticateToken", "authorizeRoles">>
                /\ Failed(q) => /\ q.pc = "done"
                                /\ Len(q.responses) = 1
                                /\ Len(q.nexts) = Len(q.trace) - 1

C1_Witness ==
    \E r \in DOMAIN reqs :
        /\ OnAdminPipeline(reqs[r])
        /\ Fns(reqs[r].trace) = AdminStack
        /\ reqs[r].responses # <<>>
        /\ ~Failed(reqs[r])

(***************************************************************************)
(* C2: a request without a bearer token to a books, authors or categories  *)
(* route is answered 401 by the access-token stage; neither the role       *)
(* check nor the handler runs.                                             *)
(***************************************************************************)
C2_NoTokenIs401 ==
    \A r \in DOMAIN reqs :
        LET q == reqs[r]
        IN  (OnRoute(q, CatalogRoutes) /\ NoBearerToken(q.headers) /\ q.trace # <<>>) =>
                /\ Fns(q.trace) = <<"authenticateToken">>
                /\ q.nexts = <<>>
                /\ Len(q.responses) = 1
                /\ q.responses[1].status = 401
                /\ q.pc = "done"

C2_Witness ==
    \E r \in DOMAIN reqs :
        /\ OnRoute(reqs[r], CatalogRoutes)
        /\ reqs[r].headers = {<<Word("Bearer"), SP>>}
        /\ reqs[r].pc = "done"
        /\ reqs[r].responses[1].status = 401

(***************************************************************************)
(* C3: authenticateRefreshToken, given no bearer token, answers 401, does  *)
(* not call next() and attaches no identity.                               *)
(***************************************************************************)
C3_RefreshNoTokenIs401 ==
    \A r \in DOMAIN reqs :
        LET q == reqs[r]
        IN  (Ran(q, "authenticateRefreshToken") /\ NoBearerToken(q.headers)) =>
                /\ q.responses = <<Response(401, [error |-> "Token manquant"])
                                     @@ [by |-> "authenticateRefreshToken"]>>
                /\ NextCalls(q, "authenticateRefreshToken") = 0
                /\ Fns(q.trace) = <<"authenticateRefreshToken">>
                /\ q.user = {}

C3_Witness ==
    \E r \in DOMAIN reqs :
        /\ Ran(reqs[r], "authenticateRefreshToken")
        /\ reqs[r].headers = {<<Word("Bearer")>>}
        /\ reqs[r].responses # <<>>
        /\ reqs[r].responses[1].status = 401

(***************************************************************************)
(* C4: authenticateRefreshToken, given a token that does not verify        *)
(* against the refresh secret at the time of the check (malformed, signed  *)
(* with another secret, altered, or expired), answers the one 403          *)
(* invalid-token response, does not call next() and attaches no identity.  *)
(***************************************************************************)
C4_RefreshBadTokenIs403 ==
    \A r \in DOMAIN reqs :
        LET q == reqs[r]
        IN  (/\ Ran(q, "authenticateRefreshToken")
             /\ ~NoBearerToken(q.headers)
             /\ ~ValidAt(q, REFRESH_TOKEN_SECRET, RanAt(q, "authenticateRefreshToken"))) =>
                /\ q.responses = <<InvalidToken @@ [by |-> "authenticateRefreshToken"]>>
                /\ NextCalls(q, "authenticateRefreshToken") = 0
                /\ Fns(q.trace) = <<"authenticateRefreshToken">>
                /\ q.user = {}

\* a refresh token that was signed with the refresh secret and has expired
C4_Witness ==
    \E r \in DOMAIN reqs :
        /\ Ran(reqs[r], "authenticateRefreshToken")
        /\ SignedWith(reqs[r], REFRESH_TOKEN_SECRET)
        /\ RanAt(reqs[r], "authenticateRefreshToken") >= Presented(reqs[r])[1].payload.exp
        /\ reqs[r].responses # <<>>
        /\ reqs[r].responses[1].status = 403

(***************************************************************************)
(* C5: authenticateRefreshToken, given a token that verifies against the   *)
(* refresh secret, sets req.user to the decoded claims of that token,      *)
(* calls next() exactly once and sends no response of its own.             *)
(***************************************************************************)
C5_RefreshGoodTokenPasses ==
    \A r \in DOMAIN reqs :
        LET q == reqs[r]
        IN  (/\ Ran(q, "authenticateRefreshToken")
             /\ ValidAt(q, REFRESH_TOKEN_SECRET, RanAt(q, "authenticateRefreshToken"))) =>
                /\ q.user = {Presented(q)[1].payload}
                /\ NextCalls(q, "authenticateRefreshToken") = 1
                /\ AnsweredBy(q, "authenticateRefreshToken") = {}
                /\ AnsweredBy(q, "errorHandler") = {}

C5_Witness ==
    \E r \in DOMAIN reqs :
        /\ Ran(reqs[r], "authenticateRefreshToken")
        /\ ValidAt(reqs[r], REFRESH_TOKEN_SECRET, RanAt(reqs[r], "authenticateRefreshToken"))
        /\ reqs[r].user = {Payload(USER, RefreshTTL)}
        /\ reqs[r].nexts = <<"authenticateRefreshToken">>

(***************************************************************************)
(* C6: a token signed with the access secret is answered 403 by the        *)
(* refresh middleware, a token signed with the refresh secret is answered  *)
(* 403 by the access-token middleware, and a middleware calls next() only  *)
(* for a token signed with its own secret.                                 *)
(***************************************************************************)
C6_PurposesNotInterchangeable ==
    \A r \in DOMAIN reqs :
        LET q == reqs[r]
        IN  /\ (Ran(q, "authenticateRefreshToken") /\ SignedWith(q, ACCESS_TOKEN_SECRET)) =>
                   /\ q.responses = <<InvalidToken @@ [by |-> "authenticateRefreshToken"]>>
                   /\ q.nexts = <<>>
            /\ (Ran(q, "authenticateToken") /\ SignedWith(q, REFRESH_TOKEN_SECRET)) =>
                   /\ Len(q.responses) = 1
                   /\ q.responses[1].status = 403
                   /\ q.nexts = <<>>
            /\ NextCalls(q, "authenticateRefreshToken") > 0 => SignedWith(q, REFRESH_TOKEN_SECRET)
            /\ NextCalls(q, "authenticateToken") > 0 => SignedWith(q, ACCESS_TOKEN_SECRET)

\* the access token a login has just issued, presented to the refresh endpoint
C6_Witness ==
    \E r \in DOMAIN reqs :
        /\ OnRoute(reqs[r], {RefreshRoute})
        /\ SignedWith(reqs[r], ACCESS_TOKEN_SECRET)
        /\ Presented(reqs[r])[1].payload.userId \in {u.id : u \in users}
        /\ reqs[r].responses # <<>>
        /\ reqs[r].responses[1].status = 403

\* the allowed roles the authorizeRoles stage of q was built with
AllowedOf(q) == q.stack[CHOOSE i \in DOMAIN q.stack : q.stack[i].fn = "authorizeRoles"].allowedRoles

\* role, trimmed, equals some allowed role name, letter case ignored
RoleAllowed(allowed, role) ==
    \E i \in DOMAIN allowed : toLowerCase(allowed[i]) = toLowerCase(trim(role))

HasAllowedRole(q) ==
    \E u \in q.user : "role" \in DOMAIN u /\ RoleAllowed(AllowedOf(q), u.role)

(***************************************************************************)
(* C7: authorizeRoles, for a request with an identity context, calls       *)
(* next() if and only if the identity's role, trimmed and with case        *)
(* ignored, is one of the allowed roles; otherwise it answers 403 and does *)
(* not call next().                                                        *)
(***************************************************************************)
C7_RoleCheckIff ==
    \A r \in DOMAIN reqs :
        LET q == reqs[r]
        IN  (Ran(q, "authorizeRoles") /\ q.user # {}) =>
                IF HasAllowedRole(q)
                THEN /\ NextCalls(q, "authorizeRoles") = 1
                     /\ AnsweredBy(q, "authorizeRoles") = {}
                     /\ AnsweredBy(q, "errorHandler") = {}
                ELSE /\ NextCalls(q, "authorizeRoles") = 0
                     /\ Len(q.responses) = 1
                     /\ q.responses[1].status = 403

(***************************************************************************)
(* C8: authorizeRoles, for a request without an identity context, answers  *)
(* 401 and does not call next(), whatever the allowed roles.               *)
(***************************************************************************)
C8_NoIdentityIs401 ==
    \A r \in DOMAIN reqs :
        LET q == reqs[r]
        IN  (Ran(q, "authorizeRoles") /\ q.user = {}) =>
                /\ NextCalls(q, "authorizeRoles") = 0
                /\ Len(q.responses) = 1
                /\ q.responses[1].status = 401

(***************************************************************************)
(* C9: the refresh endpoint answers a valid, unexpired refresh token with  *)
(* 200 and a new access token whose userId and role are those of the       *)
(* refresh token.                                                          *)
(***************************************************************************)
C9_RefreshIssuesAccessToken ==
    \A r \in DOMAIN reqs :
        LET q == reqs[r]
        IN  (/\ OnRoute(q, {RefreshRoute})
             /\ q.pc = "done"
             /\ ValidAt(q, REFRESH_TOKEN_SECRET, q.trace[1].at)) =>
                /\ Len(q.responses) = 1
                /\ q.responses[1].status = 200
                /\ "accessToken" \in DOMAIN q.responses[1].body
                /\ \E claims \in {[userId |-> Presented(q)[1].payload.userId,
                                   role |-> Presented(q)[1].payload.role]} :
                       q.responses[1].body.accessToken =
                           jwtSign(claims, ACCESS_TOKEN_SECRET, AccessTTL, q.trace[Len(q.trace)].at)

(***************************************************************************)
(* C10: login answers 400 when no user has the given email, 400 when the   *)
(* user exists and the password does not match the stored hash, and        *)
(* otherwise 200 with an access token whose claims are the stored user's   *)
(* id and role; a 400 carries no token.                                    *)
(***************************************************************************)
\* hashed is a hash of plaintext
IsHashOf(hashed, plaintext) == \E salt \in Salts : hashed = bcryptHash(plaintext, salt)

C10_LoginOutcome ==
    \A r \in DOMAIN reqs :
        LET q == reqs[r]
            known == {u \in users : "email" \in DOMAIN q.body /\ u.email = q.body.email}
            matching == {u \in known : "password" \in DOMAIN q.body
                                          /\ IsHashOf(u.password, q.body.password)}
        IN  (OnRoute(q, {LoginRoute}) /\ q.pc \in {"done", "hung"}) =>
                /\ q.pc = "done"
                /\ Len(q.responses) = 1
                /\ IF matching = {}
                   THEN /\ q.responses[1].status = 400
                        /\ "accessToken" \notin DOMAIN q.responses[1].body
                   ELSE /\ q.responses[1].status = 200
                        /\ "accessToken" \in DOMAIN q.responses[1].body
                        /\ \E u \in matching, t \in q.trace[1].at .. now :
                               q.responses[1].body.accessToken =
                                   jwtSign([userId |-> u.id, role |-> u.role],
                                           ACCESS_TOKEN_SECRET, AccessTTL, t)

(***************************************************************************)
(* C11: the refresh token a successful login computes reaches the caller   *)
(* in the response.                                                        *)
(***************************************************************************)
C11_RefreshTokenDelivered ==
    \A r \in DOMAIN reqs :
        LET q == reqs[r]
        IN  (/\ OnRoute(q, {LoginRoute})
             /\ q.responses # <<>>
             /\ q.responses[1].status = 200) =>
                \E u \in users, t \in q.trace[1].at .. now,
                   f \in DOMAIN q.responses[1].body \ {"message"} :
                    q.responses[1].body[f] = loginRefreshToken(u, t)

(***************************************************************************)
(* C12: register with an email that is not stored yet and a password       *)
(* answers 201 and adds exactly one user, with that email, role "user"     *)
(* whatever role the body names, and a hash of the password.  As first     *)
(* stated, for any email.                                                  *)
(***************************************************************************)
\* the step of register in which bcrypt.hash is back and the INSERT runs
RegisterInserts(r) == Awaiting(r, "register", 1) /\ reqs'[r] # reqs[r]

\* the step of register in which prisma.user.create is back and it answers
RegisterAnswers(r) == Awaiting(r, "register", 2) /\ reqs'[r] # reqs[r]

HasCredentials(body) == "email" \in DOMAIN body /\ "password" \in DOMAIN body

\* exactly one user is added, and what register will answer is 201
RegisterCreates(r) ==
    /\ reqs'[r].pc = "awaiting"
    /\ reqs'[r].held # {}
    /\ \A o \in reqs'[r].held : Len(o.sent) = 1 /\ o.sent[1].status = 201
    /\ \E u \in users' :
           /\ u \notin users
           /\ users' = users \cup {u}
           /\ u.email = reqs[r].body.email
           /\ u.role = USER
           /\ IsHashOf(u.password, reqs[r].body.password)

\* register answers what its INSERT brought back, once, and stores nothing more
RegisterAnswersHeld(r) ==
    /\ users' = users
    /\ reqs'[r].pc = "done"
    /\ \A o \in reqs[r].held : reqs'[r].responses = <<o.sent[1] @@ [by |-> "register"]>>

C12_RegisterCreatesUser ==
    [][\A r \in DOMAIN reqs :
           /\ (/\ RegisterInserts(r)
               /\ HasCredentials(reqs[r].body)
               /\ findUniqueByEmail(users, reqs[r].body.email) = {}) => RegisterCreates(r)
           /\ RegisterAnswers(r) => RegisterAnswersHeld(r)]_vars

C12_AsStated ==
    [][\A r \in DOMAIN reqs :
           /\ (RegisterInserts(r) /\ HasCredentials(reqs[r].body)) => RegisterCreates(r)
           /\ RegisterAnswers(r) => RegisterAnswersHeld(r)]_vars

\* a register that named the role admin was answered 201; its user has role "user"
C12_Witness ==
    \E r \in DOMAIN reqs :
        /\ OnRoute(reqs[r], {RegisterRoute})
        /\ "role" \in DOMAIN reqs[r].body
        /\ reqs[r].body.role = ADMIN
        /\ reqs[r].responses # <<>>
        /\ reqs[r].responses[1].status = 201
        /\ \E u \in users : u.email = reqs[r].body.email /\ u.role = USER

(***************************************************************************)
(* C13: no response of register carries the password of the user, in       *)
(* plain text or hashed.                                                   *)
(***************************************************************************)
C13_RegisterHidesPassword ==
    \A r \in DOMAIN reqs :
        LET q == reqs[r]
        IN  OnRoute(q, {RegisterRoute}) =>
                \A i \in DOMAIN q.responses : "password" \notin DOMAIN q.responses[i].body

(***************************************************************************)
(* C14: register with the email or the password missing or empty is        *)
(* answered 400 and stores no user.                                        *)
(***************************************************************************)
MissingOrEmpty(body, field) == field \notin DOMAIN body \/ body[field] = ""

C14_RegisterValidates ==
    /\ \A r \in DOMAIN reqs :
           LET q == reqs[r]
           IN  (/\ OnRoute(q, {RegisterRoute})
                /\ q.pc \in {"done", "hung"}
                /\ (MissingOrEmpty(q.body, "email") \/ MissingOrEmpty(q.body, "password"))) =>
                   /\ Len(q.responses) = 1
                   /\ q.responses[1].status = 400
    /\ \A u \in users : u.email # "" /\ ~IsHashOf(u.password, "")

(***************************************************************************)
(* C15: every request gets exactly one response: none is left without one  *)
(* once its pipeline has stopped, and none is answered twice.               *)
(***************************************************************************)
C15_ExactlyOneResponse ==
    \A r \in DOMAIN reqs :
        LET q == reqs[r]
        IN  /\ q.pc # "hung"
            /\ Len(q.responses) <= 1
            /\ q.pc = "done" => Len(q.responses) = 1

(***************************************************************************)
(* C16: a middleware that verifies a token signed for its purpose accepts  *)
(* it, with the claims it was issued with, at every time before its expiry *)
(* (issue time plus 1 day for an access token, plus 30 days for a refresh  *)
(* token) and answers 403 from the expiry on; time never goes back, so an  *)
(* expired token is never accepted again.                                  *)
(***************************************************************************)
Purposes == {[fn |-> "authenticateToken", secret |-> ACCESS_TOKEN_SECRET, ttl |-> AccessTTL],
             [fn |-> "authenticateRefreshToken", secret |-> REFRESH_TOKEN_SECRET,
              ttl |-> RefreshTTL]}

AcceptedUntilExpiry(q, p) ==
    LET payload == Presented(q)[1].payload
    IN  /\ payload.exp = payload.iat + p.ttl
        /\ IF RanAt(q, p.fn) < payload.exp
           THEN /\ q.user = {payload}
                /\ NextCalls(q, p.fn) = 1
                /\ AnsweredBy(q, p.fn) = {}
           ELSE /\ q.user = {}
                /\ NextCalls(q, p.fn) = 0
                /\ q.responses = <<InvalidToken @@ [by |-> p.fn]>>

C16_AcceptedUntilExpiry ==
    /\ [](\A r \in DOMAIN reqs : \A p \in Purposes :
              (Ran(reqs[r], p.fn) /\ SignedWith(reqs[r], p.secret)) =>
                  AcceptedUntilExpiry(reqs[r], p))
    /\ [][now' >= now]_vars

\* a refresh token is refused by the refresh middleware after its 30 days, and
\* an access token issued by a login is refused by the access middleware later
C16_Witness ==
    \E r \in DOMAIN reqs : \E p \in Purposes :
        /\ Ran(reqs[r], p.fn)
        /\ SignedWith(reqs[r], p.secret)
        /\ RanAt(reqs[r], p.fn) > Presented(reqs[r])[1].payload.exp
        /\ reqs[r].responses = <<InvalidToken @@ [by |-> p.fn]>>

(***************************************************************************)
(* C17: refresh does not rotate and keeps nothing about tokens: no         *)
(* response of the refresh endpoint carries a refresh token, the stages of *)
(* the refresh route leave the stored data alone, and two requests that    *)
(* present the same refresh token, each before its expiry, in any          *)
(* interleaving, both pass authenticateRefreshToken with the same identity *)
(* context.                                                                *)
(***************************************************************************)
CarriesRefreshToken(response) ==
    \/ "refreshToken" \in DOMAIN response.body
    \/ \E f \in DOMAIN response.body \ {"error", "message"} :
           response.body[f] = Jwt(response.body[f].payload, REFRESH_TOKEN_SECRET)

PassedRefresh(q) ==
    /\ Ran(q, "authenticateRefreshToken")
    /\ ValidAt(q, REFRESH_TOKEN_SECRET, RanAt(q, "authenticateRefreshToken"))

C17_NoRotationReusable ==
    /\ [](\A r \in DOMAIN reqs :
              OnRoute(reqs[r], {RefreshRoute}) =>
                  \A i \in DOMAIN reqs[r].responses : ~CarriesRefreshToken(reqs[r].responses[i]))
    /\ [](\A r1, r2 \in DOMAIN reqs :
              (/\ PassedRefresh(reqs[r1])
               /\ PassedRefresh(reqs[r2])
               /\ Presented(reqs[r1]) = Presented(reqs[r2])) =>
                  /\ reqs[r1].user = {Presented(reqs[r1])[1].payload}
                  /\ reqs[r2].user = reqs[r1].user
                  /\ NextCalls(reqs[r1], "authenticateRefreshToken") = 1
                  /\ NextCalls(reqs[r2], "authenticateRefreshToken") = 1)
    /\ [][\A r \in DOMAIN reqs :
              (OnRoute(reqs[r], {RefreshRoute}) /\ reqs[r].pc = "pending"
                   /\ reqs'[r] # reqs[r]) => UNCHANGED <<users, nextId>>]_vars

\* the refresh token that one request used to the end, at time 0, is presented
\* by another request later and passes with the same identity
C17_Witness ==
    \E r1, r2 \in DOMAIN reqs :
        /\ r1 # r2
        /\ PassedRefresh(reqs[r1])
        /\ PassedRefresh(reqs[r2])
        /\ Presented(reqs[r1]) = Presented(reqs[r2])
        /\ Ran(reqs[r1], "refresh")
        /\ RanAt(reqs[r1], "refresh") < RanAt(reqs[r2], "authenticateRefreshToken")
        /\ reqs[r2].user = reqs[r1].user
        /\ reqs[r2].user # {}

(***************************************************************************)
(* C18: whatever the interleaving of the requests in flight, the identity  *)
(* context of a request and what its token middleware answered are those   *)
(* the middleware computes from the request's own header at the time it    *)
(* ran, a request that no middleware has verified has no identity, and a   *)
(* step of one request changes nothing of another and does not take the    *)
(* process away from another that is in flight.                            *)
(***************************************************************************)
\* what middleware fn makes of the headers of q, alone, at the time it ran in q
OwnOutcome(q, fn) ==
    LET fresh == [q EXCEPT !.user = {}]
    IN  IF fn = "authenticateToken" THEN authenticateToken(fresh, RanAt(q, fn))
        ELSE authenticateRefreshToken(fresh, RanAt(q, fn))

TokenMiddlewares == {"authenticateToken", "authenticateRefreshToken"}

IdentityFromOwnToken(q) ==
    /\ (\A fn \in TokenMiddlewares : ~Ran(q, fn)) => q.user = {}
    /\ \A fn \in TokenMiddlewares :
           Ran(q, fn) =>
               /\ q.user = OwnOutcome(q, fn).user
               /\ NextCalls(q, fn) = (IF OwnOutcome(q, fn).next THEN 1 ELSE 0)
               /\ AnsweredBy(q, fn) = { sent @@ [by |-> fn] :
                                          sent \in { OwnOutcome(q, fn).sent[i] :
                                                       i \in DOMAIN OwnOutcome(q, fn).sent } }

\* the request is between its arrival and its response
InFlight(q) == q.pc \in {"pending", "awaiting"}

C18_RequestsIsolated ==
    /\ [](\A r \in DOMAIN reqs : reqs[r].pc # "idle" => IdentityFromOwnToken(reqs[r]))
    /\ [][\A r1, r2 \in DOMAIN reqs :
              (r1 # r2 /\ reqs'[r1] # reqs[r1]) =>
                  /\ reqs'[r2] = reqs[r2]
                  /\ (up /\ InFlight(reqs[r2])) => up']_vars

(***************************************************************************)
(* C19: every stored user has role "user", every token a login or a        *)
(* refresh answered with carries role "user", and a request that presents  *)
(* a token issued by login on an admin route is answered 403 and its       *)
(* handler does not run.                                                   *)
(***************************************************************************)
IssuedByLogin(token) ==
    \E u \in users, t \in 0..now :
        token = jwtSign([userId |-> u.id, role |-> u.role], ACCESS_TOKEN_SECRET, AccessTTL, t)

C19_OnlyUserRole ==
    /\ \A u \in users : u.role = USER
    /\ \A r \in DOMAIN reqs :
           OnRoute(reqs[r], {LoginRoute, RefreshRoute}) =>
               \A t \in ResponseTokens(reqs[r]) : t.payload.role = USER
    /\ \A r \in DOMAIN reqs :
           LET q == reqs[r]
           IN  (/\ OnAdminPipeline(q)
                /\ SignedWith(q, ACCESS_TOKEN_SECRET)
                /\ IssuedByLogin(Presented(q)[1])
                /\ q.pc \in {"done", "hung"}) =>
                   /\ Len(q.responses) = 1
                   /\ q.responses[1].status = 403
                   /\ ~Ran(q, "handler")

(***************************************************************************)
(* C20: no two stored users have the same email, so the lookup of login    *)
(* finds at most one user; a register whose email is stored is answered    *)
(* with an error response and leaves the stored users as they were.        *)
(***************************************************************************)
EmailStored(r) == "email" \in DOMAIN reqs[r].body /\ uniqueEmailViolated(users, reqs[r].body.email)

\* the INSERT fails and what register will answer is an error, or register
\* ends there, answered with one error response
RegisterFails(r) ==
    /\ users' = users
    /\ IF reqs'[r].pc = "awaiting"
       THEN /\ reqs'[r].held # {}
            /\ \A o \in reqs'[r].held : Len(o.sent) = 1 /\ o.sent[1].status >= 400
       ELSE /\ reqs'[r].pc = "done"
            /\ Len(reqs'[r].responses) = 1
            /\ reqs'[r].responses[1].status >= 400

C20_EmailsUnique ==
    /\ [](/\ \A u1, u2 \in users : u1.email = u2.email => u1 = u2
          /\ \A email \in Emails : Cardinality(findUniqueByEmail(users, email)) <= 1)
    /\ [][\A r \in DOMAIN reqs :
              /\ (RegisterInserts(r) /\ EmailStored(r)) => RegisterFails(r)
              /\ (RegisterAnswers(r) /\ (\E o \in reqs[r].held : o.sent[1].status >= 400)) =>
                     /\ users' = users
                     /\ reqs'[r].pc = "done"
                     /\ Len(reqs'[r].responses) = 1
                     /\ reqs'[r].responses[1].status >= 400
                     /\ reqs'[r].responses[1].by = "register"]_vars

====
